---- MODULE Spec2Model ----
(***************************************************************************)
(* victron-vrm-mcp: the request dispatcher (VRMClient), the argument       *)
(* validator (toolSchemas) and the tool-call handlers that drive them.     *)
(*                                                                         *)
(* One tool invocation is in progress at a time in Spec.  A call runs the  *)
(* handler's synchronous prefix up to its first `await fetch`; the         *)
(* transport then delivers an outcome (a response or a rejection) and the  *)
(* continuation runs up to the next await or to the handler's return.      *)
(*                                                                         *)
(* Representation:                                                         *)
(*  - a JavaScript value is a record [k, v]: k its kind, v its content;    *)
(*    an object is a function over Keys whose absent keys are Undefined;   *)
(*  - a string is a sequence of tokens, its text being the concatenation  *)
(*    of the tokens; text that the code examines character by character    *)
(*    (the identifier inside a path) is written one decimal digit per      *)
(*    token, and a number renders as one token per decimal digit;          *)
(*  - an optional member (error, meta.note, isError) is a sequence of      *)
(*    length 0 or 1.                                                       *)
(*  The clock (fetchedAt, durationMs) is not modelled.                     *)
(***************************************************************************)
EXTENDS Integers, Sequences, FiniteSets, TLC

VARIABLES client, pc, call, frame, net, got, result, subject, verdict

vars == <<client, pc, call, frame, net, got, result, subject, verdict>>

(***************************************************************************)
(* JavaScript values and the language operations the code applies to them  *)
(***************************************************************************)
Undefined == [k |-> "undefined", v |-> 0]
Null == [k |-> "null", v |-> 0]
Bool(b) == [k |-> "boolean", v |-> b]
Num(n) == [k |-> "number", v |-> n]
Str(s) == [k |-> "string", v |-> s]
S(t) == Str(<<t>>)
Arr(s) == [k |-> "array", v |-> s]

Keys ==
  { "siteId", "idUser", "extended", "type", "interval", "start", "end",
    "attributeCodes", "activeOnly", "page", "pageSize", "count", "offset",
    "instance", "query", "limit", "datatype", "format", "decode", "filter",
    "sort", "version", "extra", "records", "message", "name" }

Obj(f) == [k |-> "object", v |-> [key \in Keys |-> IF key \in DOMAIN f THEN f[key] ELSE Undefined]]

EmptyObject == Obj(<<>>)

\* Object.keys(x) of an object
ObjectKeys(x) == {key \in Keys : x.v[key] # Undefined}

\* x.key  (the caller has excluded undefined and null, on which it throws)
Get(x, key) == IF x.k = "object" THEN x.v[key] ELSE Undefined

\* x?.key
GetOpt(x, key) == IF x.k \in {"undefined", "null"} THEN Undefined ELSE Get(x, key)

\* ToBoolean(x)
Truthy(x) ==
  CASE x.k \in {"undefined", "null"} -> FALSE
    [] x.k = "boolean" -> x.v
    [] x.k = "number" -> x.v # 0
    [] x.k = "string" -> x.v # <<>>
    [] OTHER -> TRUE

\* a || b
Or(a, b) == IF Truthy(a) THEN a ELSE b

DigitChar == <<"0", "1", "2", "3", "4", "5", "6", "7", "8", "9">>

RECURSIVE Decimal(_)
Decimal(n) ==
  IF n < 10 THEN <<DigitChar[n + 1]>>
  ELSE Decimal(n \div 10) \o <<DigitChar[(n % 10) + 1]>>

RECURSIVE Join(_)
\* ToString(x), as done by a template literal and by URLSearchParams.append
ToStr(x) ==
  CASE x.k = "undefined" -> <<"undefined">>
    [] x.k = "null" -> <<"null">>
    [] x.k = "boolean" -> IF x.v THEN <<"true">> ELSE <<"false">>
    [] x.k = "number" -> IF x.v < 0 THEN <<"-">> \o Decimal(-x.v) ELSE Decimal(x.v)
    [] x.k = "string" -> x.v
    [] x.k = "array" -> Join(x.v)
    [] OTHER -> <<"[object Object]">>

\* Array.prototype.join(",") over the elements' ToString
Join(s) ==
  IF s = <<>> THEN <<>>
  ELSE IF Len(s) = 1 THEN ToStr(s[1])
  ELSE ToStr(s[1]) \o <<",">> \o Join(Tail(s))

\* x.toString() throws a TypeError on undefined and null
CanCallToString(x) == x.k \notin {"undefined", "null"}

\* x.forEach(...) is callable on arrays only
CanCallForEach(x) == x.k = "array"

(***************************************************************************)
(* The allowlist (vrm-client.ts, ALLOWED_PATHS)                            *)
(***************************************************************************)
\* the tokens \d accepts
DigitOnly == {"0", "1", "2", "3", "4", "5", "6", "7", "8", "9"}

\* an exact literal entry
Lit(p) == [re |-> FALSE, pre |-> p, suf |-> ""]

\* /^<pre>\d+<suf>$/
Re(pre, suf) == [re |-> TRUE, pre |-> pre, suf |-> suf]

WidgetNames ==
  { "VeBusState", "InverterChargerState", "ChargerRelayState",
    "SolarChargerRelayState", "GatewayRelayState", "GatewayRelayTwoState",
    "Status", "VeBusWarningsAndAlarms", "InverterChargerWarningsAndAlarms",
    "BatterySummary", "SolarChargerSummary", "EvChargerSummary",
    "GlobalLinkSummary", "MotorSummary", "PVInverterStatus", "TankSummary",
    "TempSummaryAndGraph", "DCMeter", "BMSDiagnostics", "LithiumBMS",
    "HistoricData", "IOExtenderInOut" }

ALLOWED_PATHS ==
  { Lit("/users/me"),
    Re("/users/", "/installations"),
    Re("/installations/", "/system-overview"),
    Re("/installations/", "/stats"),
    Re("/installations/", "/overallstats"),
    Re("/installations/", "/alarms"),
    Re("/installations/", "/diagnostics"),
    Re("/installations/", "/widgets/Graph"),
    Lit("/auth/loginAsDemo"),
    Lit("/auth/logout"),
    Re("/users/", "/search"),
    Re("/installations/", "/data-download"),
    Re("/installations/", "/gps-download"),
    Re("/installations/", "/tags"),
    Re("/installations/", "/custom-widget"),
    Re("/installations/", "/dynamic-ess-settings"),
    Re("/installations/", "/reset-forecasts"),
    Lit("/data-attributes"),
    Lit("/firmwares") }
  \cup { Re("/installations/", "/widgets/" \o w) : w \in WidgetNames }

\* pattern === path, or pattern.test(path)
Matches(pattern, path) ==
  IF pattern.re
    THEN /\ Len(path) >= 3
         /\ path[1] = pattern.pre
         /\ path[Len(path)] = pattern.suf
         /\ \A i \in 2..(Len(path) - 1) : path[i] \in DigitOnly
    ELSE path = <<pattern.pre>>

isAllowedPath(path) == \E pattern \in ALLOWED_PATHS : Matches(pattern, path)

(***************************************************************************)
(* VRMClient: construction, headers, vrmGet                                *)
(***************************************************************************)
\* process.env entries: <<>> when unset, else <<value>>
Environments ==
  { [VRM_TOKEN |-> <<>>, VRM_BASE_URL |-> <<>>, VRM_TOKEN_KIND |-> <<>>],
    [VRM_TOKEN |-> <<"">>, VRM_BASE_URL |-> <<>>, VRM_TOKEN_KIND |-> <<"Bearer">>],
    [VRM_TOKEN |-> <<"secret">>, VRM_BASE_URL |-> <<>>, VRM_TOKEN_KIND |-> <<>>],
    [VRM_TOKEN |-> <<"secret">>, VRM_BASE_URL |-> <<"http://localhost">>,
     VRM_TOKEN_KIND |-> <<"Bearer">>] }

\* process.env.X || fallback
EnvOr(e, fallback) == IF e = <<>> \/ e = <<"">> THEN fallback ELSE e[1]

\* mutant of constructor: the token is not asked for
constructorAnyToken(env) ==
  [ constructed |-> TRUE,
    baseUrl |-> EnvOr(env.VRM_BASE_URL, "https://vrmapi.victronenergy.com/v2"),
    token |-> EnvOr(env.VRM_TOKEN, ""),
    tokenKind |-> EnvOr(env.VRM_TOKEN_KIND, "Token") ]

constructor(env) ==
  LET token == EnvOr(env.VRM_TOKEN, "")
  IN [ constructed |-> token # "",
       baseUrl |-> EnvOr(env.VRM_BASE_URL, "https://vrmapi.victronenergy.com/v2"),
       token |-> token,
       tokenKind |-> EnvOr(env.VRM_TOKEN_KIND, "Token") ]

\* mutant of getAuthHeaders: a third header is sent
getAuthHeadersWithContentType(c) ==
  ("X-Authorization" :> <<c.tokenKind, " ", c.token>>)
  @@ ("Accept" :> <<"application/json">>)
  @@ ("Content-Type" :> <<"application/json">>)

getAuthHeaders(c) ==
  ("X-Authorization" :> <<c.tokenKind, " ", c.token>>) @@ ("Accept" :> <<"application/json">>)

\* the fetch(url, {method, headers}) call of vrmGet; query is <<>> when
\* queryParams is undefined, else <<the list of appended pairs>>
FetchCall(c, path, query) ==
  [ method |-> "GET",
    url |-> [base |-> c.baseUrl, path |-> path, query |-> query],
    headers |-> getAuthHeaders(c),
    body |-> <<>> ]

\* response.ok
ResponseOk(status) == status >= 200 /\ status <= 299

Envelope(ok, path, requestId, data, status, rateLimited, error) ==
  [ ok |-> ok, source |-> "vrm", endpoint |-> path, requestId |-> requestId,
    data |-> data,
    meta |-> [status |-> status, rateLimited |-> rateLimited, note |-> <<>>],
    error |-> error ]

ErrorOf(code, message) == <<[code |-> code, message |-> message]>>

\* the catch block of vrmGet
NetworkError(path, requestId, message) ==
  Envelope(FALSE, path, requestId, Null, 0, FALSE, ErrorOf("network_error", message))

\* An outcome of fetch: rejected with err (<<message>> for an Error, <<>> for
\* any other thrown value), or a response with a status and a body; json is
\* <<>> when response.json() rejects, else <<the parsed value>>.
errorCode(status) ==
  IF status = 401 \/ status = 403 THEN "auth"
  ELSE IF status = 404 THEN "not_found"
  ELSE IF status = 422 \/ status = 400 THEN "bad_request"
  ELSE IF status = 429 THEN "rate_limited"
  ELSE "unknown_error"

errorMessage(status, path, body) ==
  IF status = 401 \/ status = 403
    THEN Str(<<"Authentication failed. Please check your VRM_TOKEN.">>)
  ELSE IF status = 404 THEN Str(<<"Resource not found: ">> \o path)
  ELSE IF status = 422 \/ status = 400
    THEN Or(Get(body, "message"), Str(<<"Invalid request parameters">>))
  ELSE IF status = 429 THEN Str(<<"Rate limited. Please try again later.">>)
  ELSE Str(<<"HTTP ">> \o Decimal(status))

\* body.message is read for 400 and 422 only; on a null body it throws
ReadsMessageOfNull(status, body) ==
  (status = 422 \/ status = 400) /\ body.k \in {"undefined", "null"}

\* mutant of Unwrap: the body is passed on as it is
UnwrapNothing(body) == body

\* body?.records || body
Unwrap(body) == Or(GetOpt(body, "records"), body)

\* mutant of vrmGetSettle: a body that does not parse ends in the catch block
vrmGetSettleStrictJson(path, requestId, outcome) ==
  IF outcome.rejected \/ outcome.json = <<>>
    THEN NetworkError(path, requestId, Str(<<"Unexpected end of JSON input">>))
  ELSE IF ~ResponseOk(outcome.status)
    THEN Envelope(FALSE, path, requestId, outcome.json[1], outcome.status,
                  outcome.status = 429,
                  ErrorOf(errorCode(outcome.status), Str(<<"HTTP ">> \o Decimal(outcome.status))))
  ELSE Envelope(TRUE, path, requestId, Unwrap(outcome.json[1]), outcome.status, FALSE, <<>>)

\* vrmGet from the return of fetch on
vrmGetSettle(path, requestId, outcome) ==
  IF outcome.rejected
    THEN NetworkError(path, requestId,
           IF outcome.err # <<>> THEN Str(outcome.err) ELSE Str(<<"Network request failed">>))
  ELSE
    LET body == IF outcome.json = <<>> THEN EmptyObject ELSE outcome.json[1]
        status == outcome.status
    IN IF ~ResponseOk(status)
         THEN IF ReadsMessageOfNull(status, body)
                THEN NetworkError(path, requestId,
                       Str(<<"Cannot read properties of null (reading 'message')">>))
                ELSE Envelope(FALSE, path, requestId, body, status, status = 429,
                              ErrorOf(errorCode(status), errorMessage(status, path, body)))
         ELSE Envelope(TRUE, path, requestId, Unwrap(body), status, FALSE, <<>>)

(***************************************************************************)
(* Query construction (URLSearchParams) and the operations' first halves:  *)
(* each yields the path and the query it hands to vrmGet, or throws a      *)
(* TypeError on the way                                                    *)
(***************************************************************************)
\* new URLSearchParams()
NewParams == [thrown |-> FALSE, list |-> <<>>]

\* queryParams.append(name, value): value is converted with ToString
append(q, name, value) ==
  IF q.thrown THEN q ELSE [q EXCEPT !.list = Append(@, <<name, ToStr(value)>>)]

\* queryParams.append(name, x.toString())
appendToString(q, name, x) ==
  IF q.thrown THEN q
  ELSE IF CanCallToString(x) THEN append(q, name, x)
  ELSE [q EXCEPT !.thrown = TRUE]

\* if (x !== undefined) queryParams.append(name, x.toString())
appendIfDefined(q, name, x) == IF x # Undefined THEN appendToString(q, name, x) ELSE q

\* mutant of appendAll: only the first element is appended
appendFirst(q, name, codes) ==
  IF codes = <<>> THEN q ELSE append(q, name, codes[1])

RECURSIVE appendAll(_, _, _)
appendAll(q, name, codes) ==
  IF codes = <<>> THEN q
  ELSE appendAll(append(q, name, codes[1]), name, Tail(codes))

\* x.forEach(code => queryParams.append(name, code))
appendEach(q, name, x) ==
  IF q.thrown THEN q
  ELSE IF CanCallForEach(x) THEN appendAll(q, name, x.v)
  ELSE [q EXCEPT !.thrown = TRUE]

\* this.vrmGet(path, queryParams)
Plan(path, q) == [thrown |-> q.thrown, path |-> path, query |-> <<q.list>>]

\* this.vrmGet(path)
PlanPath(path) == [thrown |-> FALSE, path |-> path, query |-> <<>>]

\* `/installations/${params.siteId}<rest>`
InstallationPath(params, rest) ==
  <<"/installations/">> \o ToStr(Get(params, "siteId")) \o <<rest>>

getUserMe == PlanPath(<<"/users/me">>)

\* listInstallations from `const queryParams` on, with idUser settled
listInstallationsCall(params, idUser) ==
  LET q == IF Truthy(Get(params, "extended"))
             THEN append(NewParams, "extended", S("1")) ELSE NewParams
  IN Plan(<<"/users/">> \o ToStr(idUser) \o <<"/installations">>, q)

getSystemOverview(params) == PlanPath(InstallationPath(params, "/system-overview"))

getStats(params) ==
  LET q1 == append(NewParams, "type", Get(params, "type"))
      interval == Or(Get(params, "interval"), S("15mins"))
      q2 == append(q1, "interval", interval)
      q3 == appendIfDefined(q2, "start", Get(params, "start"))
      q4 == appendIfDefined(q3, "end", Get(params, "end"))
  IN Plan(InstallationPath(params, "/stats"), q4)

\* const type = params.type || "custom"
overallStatsType(params) == Or(Get(params, "type"), S("custom"))

\* mutant of getOverallStats: start and end go out whatever the type
getOverallStatsAnyType(params) ==
  LET q1 == append(NewParams, "type", overallStatsType(params))
      q2 == appendEach(q1, "attributeCodes[]", Get(params, "attributeCodes"))
      q3 == appendIfDefined(q2, "start", Get(params, "start"))
      q4 == appendIfDefined(q3, "end", Get(params, "end"))
  IN Plan(InstallationPath(params, "/overallstats"), q4)

getOverallStats(params) ==
  LET type == overallStatsType(params)
      q1 == append(NewParams, "type", type)
      q2 == appendEach(q1, "attributeCodes[]", Get(params, "attributeCodes"))
      q3 == IF Get(params, "start") # Undefined /\ type = S("custom")
              THEN appendToString(q2, "start", Get(params, "start")) ELSE q2
      q4 == IF Get(params, "end") # Undefined /\ type = S("custom")
              THEN appendToString(q3, "end", Get(params, "end")) ELSE q3
  IN Plan(InstallationPath(params, "/overallstats"), q4)

getAlarms(params) ==
  LET q1 == IF Truthy(Get(params, "activeOnly"))
              THEN append(NewParams, "activeOnly", S("true")) ELSE NewParams
      q2 == appendIfDefined(q1, "page", Get(params, "page"))
      q3 == appendIfDefined(q2, "pageSize", Get(params, "pageSize"))
  IN Plan(InstallationPath(params, "/alarms"), q3)

\* mutant of getDiagnostics: count goes out only when it is supplied
getDiagnosticsNoDefault(params) ==
  LET q1 == appendIfDefined(NewParams, "count", Get(params, "count"))
      q2 == appendIfDefined(q1, "offset", Get(params, "offset"))
  IN Plan(InstallationPath(params, "/diagnostics"), q2)

getDiagnostics(params) ==
  LET count == Or(Get(params, "count"), Num(200))
      q1 == appendToString(NewParams, "count", count)
      q2 == appendIfDefined(q1, "offset", Get(params, "offset"))
  IN Plan(InstallationPath(params, "/diagnostics"), q2)

getWidgetGraph(params) ==
  LET q1 == appendEach(NewParams, "attributeCodes[]", Get(params, "attributeCodes"))
      q2 == appendToString(q1, "instance", Get(params, "instance"))
  IN Plan(InstallationPath(params, "/widgets/Graph"), q2)

authLoginAsDemo == PlanPath(<<"/auth/loginAsDemo">>)

authLogout == PlanPath(<<"/auth/logout">>)

searchUserInstallations(params) ==
  LET q1 == IF Truthy(Get(params, "query"))
              THEN append(NewParams, "query", Get(params, "query")) ELSE NewParams
      q2 == IF Truthy(Get(params, "limit"))
              THEN appendToString(q1, "limit", Get(params, "limit")) ELSE q1
  IN Plan(<<"/users/">> \o ToStr(Get(params, "idUser")) \o <<"/search">>, q2)

downloadGpsData(params) ==
  LET q1 == appendIfDefined(NewParams, "start", Get(params, "start"))
      q2 == appendIfDefined(q1, "end", Get(params, "end"))
  IN Plan(InstallationPath(params, "/gps-download"), q2)

\* downloadInstallationData up to its call of vrmGet
downloadInstallationData(params) ==
  LET datatype == Or(Get(params, "datatype"), S("log"))
      format == Or(Get(params, "format"), S("csv"))
      q1 == append(NewParams, "datatype", datatype)
      q2 == append(q1, "format", format)
      q3 == appendIfDefined(q2, "start", Get(params, "start"))
      q4 == appendIfDefined(q3, "end", Get(params, "end"))
  IN Plan(InstallationPath(params, "/data-download"), q4)

getInstallationTags(params) == PlanPath(InstallationPath(params, "/tags"))

getCustomWidget(params) == PlanPath(InstallationPath(params, "/custom-widget"))

getDynamicEssSettings(params) == PlanPath(InstallationPath(params, "/dynamic-ess-settings"))

getDataAttributes(params) ==
  LET q1 == IF Truthy(Get(params, "filter"))
              THEN append(NewParams, "filter", Get(params, "filter")) ELSE NewParams
      q2 == IF Truthy(Get(params, "sort"))
              THEN append(q1, "sort", Get(params, "sort")) ELSE q1
      q3 == IF Truthy(Get(params, "limit"))
              THEN appendToString(q2, "limit", Get(params, "limit")) ELSE q2
      q4 == appendIfDefined(q3, "offset", Get(params, "offset"))
  IN Plan(<<"/data-attributes">>, q4)

getFirmwares(params) ==
  LET q1 == IF Truthy(Get(params, "type"))
              THEN append(NewParams, "type", Get(params, "type")) ELSE NewParams
      q2 == IF Truthy(Get(params, "version"))
              THEN append(q1, "version", Get(params, "version")) ELSE q1
  IN Plan(<<"/firmwares">>, q2)

getResetForecasts(params) == PlanPath(InstallationPath(params, "/reset-forecasts"))

\* the widget operations of batches 4 to 7, by method name: all have the one
\* body, an optional instance parameter and `/installations/<siteId>/widgets/<W>`
WidgetOf ==
  [ getVeBusState |-> "VeBusState",
    getInverterChargerState |-> "InverterChargerState",
    getChargerRelayState |-> "ChargerRelayState",
    getSolarChargerRelayState |-> "SolarChargerRelayState",
    getGatewayRelayState |-> "GatewayRelayState",
    getGatewayRelayTwoState |-> "GatewayRelayTwoState",
    getStatusWidget |-> "Status",
    getVeBusWarningsAlarms |-> "VeBusWarningsAndAlarms",
    getInverterChargerWarningsAlarms |-> "InverterChargerWarningsAndAlarms",
    getBatterySummary |-> "BatterySummary",
    getSolarChargerSummary |-> "SolarChargerSummary",
    getEvChargerSummary |-> "EvChargerSummary",
    getGlobalLinkSummary |-> "GlobalLinkSummary",
    getMotorSummary |-> "MotorSummary",
    getPvInverterStatus |-> "PVInverterStatus",
    getTankSummary |-> "TankSummary",
    getTempSummaryGraph |-> "TempSummaryAndGraph",
    getDcMeter |-> "DCMeter",
    getBmsDiagnostics |-> "BMSDiagnostics",
    getLithiumBms |-> "LithiumBMS",
    getHistoricData |-> "HistoricData",
    getIoExtender |-> "IOExtenderInOut" ]

getWidget(op, params) ==
  LET q == appendIfDefined(NewParams, "instance", Get(params, "instance"))
  IN Plan(InstallationPath(params, "/widgets/" \o WidgetOf[op]), q)

(***************************************************************************)
(* The argument validator (schemas.ts): the zod combinators the schemas    *)
(* use, and the two schema tables                                          *)
(***************************************************************************)
zBase(type) ==
  [type |-> type, optional |-> FALSE, min |-> <<>>, max |-> <<>>, values |-> {}]

zNumber == zBase("number")
zString == zBase("string")
zBoolean == zBase("boolean")
zEnum(values) == [zBase("enum") EXCEPT !.values = {<<x>> : x \in values}]
zArrayOfString == zBase("array")
\* mutant of zMin: the lower bound is not recorded
zMinIgnored(s, n) == s

zMin(s, n) == [s EXCEPT !.min = <<n>>]
zMax(s, n) == [s EXCEPT !.max = <<n>>]
zOptional(s) == [s EXCEPT !.optional = TRUE]

\* mutant of zStrict: z.object(shape), which strips unknown keys
zStrip(shape) == [shape |-> shape, unknownKeys |-> "strip"]

\* z.object(shape).strict()
zStrict(shape) == [shape |-> shape, unknownKeys |-> "strict"]

InRange(s, n) == (s.min = <<>> \/ n >= s.min[1]) /\ (s.max = <<>> \/ n <= s.max[1])

\* mutant of Accepts: an absent key is accepted for every field
AcceptsAbsent(s, x) ==
  \/ x = Undefined
  \/ CASE s.type = "number" -> x.k = "number" /\ InRange(s, x.v)
        [] s.type = "string" -> x.k = "string"
        [] s.type = "boolean" -> x.k = "boolean"
        [] s.type = "enum" -> x.k = "string" /\ x.v \in s.values
        [] s.type = "array" ->
             /\ x.k = "array"
             /\ \A i \in 1..Len(x.v) : x.v[i].k = "string"
             /\ InRange(s, Len(x.v))

\* does the field schema s accept the value x (Undefined: the key is absent)
Accepts(s, x) ==
  IF x = Undefined THEN s.optional
  ELSE CASE s.type = "number" -> x.k = "number" /\ InRange(s, x.v)
         [] s.type = "string" -> x.k = "string"
         [] s.type = "boolean" -> x.k = "boolean"
         [] s.type = "enum" -> x.k = "string" /\ x.v \in s.values
         [] s.type = "array" ->
              /\ x.k = "array"
              /\ \A i \in 1..Len(x.v) : x.v[i].k = "string"
              /\ InRange(s, Len(x.v))

\* the keys of the input that the shape does not declare
UnrecognizedKeys(schema, input) == ObjectKeys(input) \ DOMAIN schema.shape

\* schema.parse(input): success with the parsed object, or a ZodError
parse(schema, input) ==
  IF input.k # "object" THEN [success |-> FALSE, data |-> Undefined]
  ELSE
    LET bad == {key \in DOMAIN schema.shape : ~Accepts(schema.shape[key], input.v[key])}
        extra == IF schema.unknownKeys = "strict"
                   THEN UnrecognizedKeys(schema, input) ELSE {}
    IN IF bad = {} /\ extra = {}
         THEN [ success |-> TRUE,
                data |-> Obj([key \in DOMAIN schema.shape |-> input.v[key]]) ]
         ELSE [success |-> FALSE, data |-> Undefined]

StatsTypes == {"venus", "live_feed", "consumption", "kwh", "solar_yield", "forecast"}
PeriodTypes == {"custom", "today", "yesterday", "month", "year"}
DataTypes == {"log", "benchmark", "kwh"}
\* mutant of Formats: one more format is declared
FormatsWithJson == {"csv", "excelxml", "xls", "xlsx", "json"}

Formats == {"csv", "excelxml", "xls", "xlsx"}

toolSchemas ==
  [ vrm_get_user_me |-> zStrict(<<>>),
    vrm_list_installations |->
      zStrict([idUser |-> zOptional(zNumber), extended |-> zOptional(zBoolean)]),
    vrm_get_system_overview |-> zStrict([siteId |-> zNumber]),
    vrm_get_stats |->
      zStrict([ siteId |-> zNumber, type |-> zEnum(StatsTypes),
                interval |-> zOptional(zString), start |-> zOptional(zNumber),
                end |-> zOptional(zNumber) ]),
    vrm_get_overall_stats |->
      zStrict([ siteId |-> zNumber, type |-> zOptional(zEnum(PeriodTypes)),
                attributeCodes |-> zMin(zArrayOfString, 1),
                start |-> zOptional(zNumber), end |-> zOptional(zNumber) ]),
    vrm_get_alarms |->
      zStrict([ siteId |-> zNumber, activeOnly |-> zOptional(zBoolean),
                page |-> zOptional(zMin(zNumber, 1)),
                pageSize |-> zOptional(zMax(zMin(zNumber, 1), 200)) ]),
    vrm_get_diagnostics |->
      zStrict([ siteId |-> zNumber,
                count |-> zOptional(zMax(zMin(zNumber, 1), 1000)),
                offset |-> zOptional(zMin(zNumber, 0)) ]),
    vrm_get_widget_graph |->
      zStrict([ siteId |-> zNumber, attributeCodes |-> zMin(zArrayOfString, 1),
                instance |-> zNumber ]),
    vrm_auth_login_as_demo |-> zStrict(<<>>),
    vrm_auth_logout |-> zStrict(<<>>),
    vrm_get_user_access_tokens |-> zStrict([idUser |-> zNumber]),
    vrm_search_user_installations |->
      zStrict([ idUser |-> zNumber, query |-> zOptional(zString),
                limit |-> zOptional(zMax(zMin(zNumber, 1), 100)) ]),
    vrm_download_installation_data |->
      zStrict([ siteId |-> zNumber, start |-> zOptional(zNumber),
                end |-> zOptional(zNumber), datatype |-> zOptional(zEnum(DataTypes)),
                format |-> zOptional(zEnum(Formats)), decode |-> zOptional(zBoolean) ]),
    vrm_download_gps_data |->
      zStrict([ siteId |-> zNumber, start |-> zOptional(zNumber),
                end |-> zOptional(zNumber) ]),
    vrm_get_installation_tags |-> zStrict([siteId |-> zNumber]),
    vrm_get_custom_widget |-> zStrict([siteId |-> zNumber]),
    vrm_get_dynamic_ess_settings |-> zStrict([siteId |-> zNumber]),
    vrm_get_data_attributes |->
      zStrict([ filter |-> zOptional(zString), sort |-> zOptional(zString),
                limit |-> zOptional(zMax(zMin(zNumber, 1), 1000)),
                offset |-> zOptional(zMin(zNumber, 0)) ]),
    vrm_get_firmwares |->
      zStrict([type |-> zOptional(zString), version |-> zOptional(zString)]),
    vrm_get_reset_forecasts |-> zStrict([siteId |-> zNumber]),
    vrm_get_vebus_state |->
      zStrict([siteId |-> zNumber, instance |-> zOptional(zNumber)]),
    vrm_get_inverter_charger_state |->
      zStrict([siteId |-> zNumber, instance |-> zOptional(zNumber)]),
    vrm_get_charger_relay_state |->
      zStrict([siteId |-> zNumber, instance |-> zOptional(zNumber)]),
    vrm_get_solar_charger_relay_state |->
      zStrict([siteId |-> zNumber, instance |-> zOptional(zNumber)]),
    vrm_get_gateway_relay_state |->
      zStrict([siteId |-> zNumber, instance |-> zOptional(zNumber)]),
    vrm_get_gateway_relay_two_state |->
      zStrict([siteId |-> zNumber, instance |-> zOptional(zNumber)]),
    vrm_get_status_widget |->
      zStrict([siteId |-> zNumber, instance |-> zOptional(zNumber)]),
    vrm_get_vebus_warnings_alarms |->
      zStrict([siteId |-> zNumber, instance |-> zOptional(zNumber)]),
    vrm_get_inverter_charger_warnings_alarms |->
      zStrict([siteId |-> zNumber, instance |-> zOptional(zNumber)]),
    vrm_get_battery_summary |->
      zStrict([siteId |-> zNumber, instance |-> zOptional(zNumber)]),
    vrm_get_solar_charger_summary |->
      zStrict([siteId |-> zNumber, instance |-> zOptional(zNumber)]),
    vrm_get_ev_charger_summary |->
      zStrict([siteId |-> zNumber, instance |-> zOptional(zNumber)]),
    vrm_get_global_link_summary |->
      zStrict([siteId |-> zNumber, instance |-> zOptional(zNumber)]),
    vrm_get_motor_summary |->
      zStrict([siteId |-> zNumber, instance |-> zOptional(zNumber)]),
    vrm_get_pv_inverter_status |->
      zStrict([siteId |-> zNumber, instance |-> zOptional(zNumber)]),
    vrm_get_tank_summary |->
      zStrict([siteId |-> zNumber, instance |-> zOptional(zNumber)]),
    vrm_get_temp_summary_graph |->
      zStrict([siteId |-> zNumber, instance |-> zOptional(zNumber)]),
    vrm_get_dc_meter |->
      zStrict([siteId |-> zNumber, instance |-> zOptional(zNumber)]),
    vrm_get_bms_diagnostics |->
      zStrict([siteId |-> zNumber, instance |-> zOptional(zNumber)]),
    vrm_get_lithium_bms |->
      zStrict([siteId |-> zNumber, instance |-> zOptional(zNumber)]),
    vrm_get_historic_data |->
      zStrict([siteId |-> zNumber, instance |-> zOptional(zNumber)]),
    vrm_get_io_extender |->
      zStrict([siteId |-> zNumber, instance |-> zOptional(zNumber)]) ]

\* the table of the dotted tool names (schemas.ts, second half)
toolSchemasDotted ==
  ("vrm.get_user_me" :> zStrict(<<>>))
  @@ ("vrm.list_installations" :>
        zStrict([idUser |-> zOptional(zNumber), extended |-> zOptional(zBoolean)]))
  @@ ("vrm.get_system_overview" :> zStrict([siteId |-> zNumber]))
  @@ ("vrm.get_stats" :>
        zStrict([ siteId |-> zNumber, type |-> zEnum(StatsTypes),
                  interval |-> zOptional(zString), start |-> zOptional(zNumber),
                  end |-> zOptional(zNumber) ]))
  @@ ("vrm.get_overall_stats" :>
        zStrict([ siteId |-> zNumber, type |-> zOptional(zEnum(PeriodTypes)),
                  attributeCodes |-> zMin(zArrayOfString, 1),
                  start |-> zOptional(zNumber), end |-> zOptional(zNumber) ]))
  @@ ("vrm.get_alarms" :>
        zStrict([ siteId |-> zNumber, activeOnly |-> zOptional(zBoolean),
                  page |-> zOptional(zMin(zNumber, 1)),
                  pageSize |-> zOptional(zMax(zMin(zNumber, 1), 200)) ]))
  @@ ("vrm.get_diagnostics" :>
        zStrict([ siteId |-> zNumber,
                  count |-> zOptional(zMax(zMin(zNumber, 1), 1000)),
                  offset |-> zOptional(zMin(zNumber, 0)) ]))
  @@ ("vrm.get_widget_graph" :>
        zStrict([ siteId |-> zNumber, attributeCodes |-> zMin(zArrayOfString, 1),
                  instance |-> zNumber ]))

(***************************************************************************)
(* downloadInstallationData: base64, text and CSV.  A payload is a string  *)
(* of one-character pieces; decoded text is a sequence of character codes  *)
(* (kind "text").                                                          *)
(***************************************************************************)
Text(codes) == [k |-> "text", v |-> codes]

B64Alphabet ==
  <<
     "A", "B", "C", "D", "E", "F", "G", "H", "I", "J", "K", "L", "M", "N",
     "O", "P", "Q", "R", "S", "T", "U", "V", "W", "X", "Y", "Z", "a", "b",
     "c", "d", "e", "f", "g", "h", "i", "j", "k", "l", "m", "n", "o", "p",
     "q", "r", "s", "t", "u", "v", "w", "x", "y", "z", "0", "1", "2", "3",
     "4", "5", "6", "7", "8", "9", "+", "/"
  >>

RECURSIVE BytesOf(_)
\* the bytes that a run of base64 sextets stands for
BytesOf(sx) ==
  IF Len(sx) < 2 THEN <<>>
  ELSE IF Len(sx) = 2 THEN <<sx[1] * 4 + sx[2] \div 16>>
  ELSE IF Len(sx) = 3
    THEN <<sx[1] * 4 + sx[2] \div 16, (sx[2] % 16) * 16 + sx[3] \div 4>>
  ELSE << sx[1] * 4 + sx[2] \div 16,
          (sx[2] % 16) * 16 + sx[3] \div 4,
          (sx[3] % 4) * 64 + sx[4] >> \o BytesOf(SubSeq(sx, 5, Len(sx)))

\* Buffer.from(chars, 'base64').toString('utf-8'): characters outside the
\* alphabet (the padding "=" among them) are skipped, never an error; a byte
\* that is no ASCII character becomes U+FFFD
base64Decode(chars) ==
  LET InAlphabet(c) == \E i \in 1..64 : B64Alphabet[i] = c
      valid == SelectSeq(chars, InAlphabet)
      sextets == [i \in 1..Len(valid) |-> (CHOOSE j \in 1..64 : B64Alphabet[j] = valid[i]) - 1]
      bytes == BytesOf(sextets)
  IN [i \in 1..Len(bytes) |-> IF bytes[i] < 128 THEN bytes[i] ELSE 65533]

RECURSIVE base64Encode(_)
\* Buffer.from(text).toString('base64'), for ASCII text
base64Encode(bytes) ==
  LET A(n) == B64Alphabet[n + 1]
  IN IF bytes = <<>> THEN <<>>
     ELSE IF Len(bytes) = 1
       THEN <<A(bytes[1] \div 4), A((bytes[1] % 4) * 16), "=", "=">>
     ELSE IF Len(bytes) = 2
       THEN << A(bytes[1] \div 4), A((bytes[1] % 4) * 16 + bytes[2] \div 16),
               A((bytes[2] % 16) * 4), "=" >>
     ELSE << A(bytes[1] \div 4), A((bytes[1] % 4) * 16 + bytes[2] \div 16),
             A((bytes[2] % 16) * 4 + bytes[3] \div 64), A(bytes[3] % 64) >>
          \o base64Encode(SubSeq(bytes, 4, Len(bytes)))

RECURSIVE Split(_, _)
\* text.split(sep)
Split(text, sep) ==
  IF \A i \in 1..Len(text) : text[i] # sep THEN <<text>>
  ELSE LET at == CHOOSE i \in 1..Len(text) :
                   text[i] = sep /\ \A j \in 1..(i - 1) : text[j] # sep
       IN <<SubSeq(text, 1, at - 1)>> \o Split(SubSeq(text, at + 1, Len(text)), sep)

\* text.trim()
Trim(text) ==
  LET black == {i \in 1..Len(text) : text[i] \notin {9, 10, 11, 12, 13, 32}}
  IN IF black = {} THEN <<>>
     ELSE SubSeq(text, CHOOSE i \in black : \A j \in black : i <= j,
                       CHOOSE i \in black : \A j \in black : i >= j)

RECURSIVE DigitsValue(_)
\* the number a run of decimal digits denotes, 0 for the empty run
DigitsValue(digits) ==
  IF digits = <<>> THEN 0
  ELSE 10 * DigitsValue(SubSeq(digits, 1, Len(digits) - 1)) + (digits[Len(digits)] - 48)

\* mutant of Coerce: a number only for text that is the numeral of its value
CoerceLossless(value) ==
  IF value = Undefined THEN Undefined
  ELSE IF /\ value.v # <<>>
          /\ \A i \in 1..Len(value.v) : value.v[i] \in 48..57
          /\ (Len(value.v) = 1 \/ value.v[1] # 48)
    THEN Num(DigitsValue(value.v))
  ELSE value

\* isNaN(Number(value)) ? value : Number(value), for a value that is
\* undefined or trimmed text of letters, digits and blanks: Number("") is 0
Coerce(value) ==
  IF value = Undefined THEN Undefined
  ELSE IF \A i \in 1..Len(value.v) : value.v[i] \in 48..57 THEN Num(DigitsValue(value.v))
  ELSE value

\* the try block of downloadInstallationData from csvString.split on: the
\* records, as functions from trimmed header to value, and the columns
parseCsv(csvString) ==
  LET NotBlank(line) == Trim(line) # <<>>
      lines == SelectSeq(Split(csvString, 10), NotBlank)
      headers == IF lines = <<>> THEN <<>> ELSE Split(lines[1], 44)
      names == {Trim(headers[i]) : i \in 1..Len(headers)}
      Record(line) ==
        LET values == Split(line, 44)
        IN [name \in names |->
              LET index == CHOOSE i \in 1..Len(headers) :
                             /\ Trim(headers[i]) = name
                             /\ \A j \in (i + 1)..Len(headers) : Trim(headers[j]) # name
              IN Coerce(IF index <= Len(values) THEN Text(Trim(values[index])) ELSE Undefined)]
  IN [ records |-> [j \in 1..(Len(lines) - 1) |-> Record(lines[j + 1])],
       columns |-> [i \in 1..Len(headers) |-> Text(Trim(headers[i]))] ]

(***************************************************************************)
(* The operations as coroutines: Begin runs an operation up to its first   *)
(* await of fetch, Resume runs it on from the settled vrmGet.  A step ends *)
(* awaiting a fetch, returning an envelope, or throwing.                   *)
(***************************************************************************)
Awaiting(stage, plan) ==
  [kind |-> "await", stage |-> stage, path |-> plan.path, query |-> plan.query]

Returning(envelope) == [kind |-> "return", value |-> envelope]

Throwing(name, message) == [kind |-> "throw", exc |-> [name |-> name, message |-> message]]

\* mutant of vrmGet: the allowlist check is skipped
vrmGetUnchecked(stage, path, query) == Awaiting(stage, [path |-> path, query |-> query])

\* vrmGet up to its fetch: the allowlist check comes first
vrmGet(stage, path, query) ==
  IF ~isAllowedPath(path)
    THEN Throwing("Error", Str(<<"Disallowed path: ">> \o path))
    ELSE Awaiting(stage, [path |-> path, query |-> query])

\* an operation's body up to its call of vrmGet: building the query may throw
Invoke(stage, plan) ==
  IF plan.thrown
    THEN Throwing("TypeError", Str(<<"Cannot read properties of undefined">>))
    ELSE vrmGet(stage, plan.path, plan.query)

SingleCallOps ==
  { "getUserMe", "getSystemOverview", "getStats", "getOverallStats", "getAlarms",
    "getDiagnostics", "getWidgetGraph", "authLoginAsDemo", "authLogout",
    "searchUserInstallations", "downloadGpsData", "getInstallationTags",
    "getCustomWidget", "getDynamicEssSettings", "getDataAttributes",
    "getFirmwares", "getResetForecasts" } \cup DOMAIN WidgetOf

ClientOps == SingleCallOps \cup {"listInstallations"}

\* the path and query an operation other than listInstallations asks for
FirstCall(op, params) ==
  CASE op = "getUserMe" -> getUserMe
    [] op = "getSystemOverview" -> getSystemOverview(params)
    [] op = "getStats" -> getStats(params)
    [] op = "getOverallStats" -> getOverallStats(params)
    [] op = "getAlarms" -> getAlarms(params)
    [] op = "getDiagnostics" -> getDiagnostics(params)
    [] op = "getWidgetGraph" -> getWidgetGraph(params)
    [] op = "authLoginAsDemo" -> authLoginAsDemo
    [] op = "authLogout" -> authLogout
    [] op = "searchUserInstallations" -> searchUserInstallations(params)
    [] op = "downloadGpsData" -> downloadGpsData(params)
    [] op = "downloadInstallationData" -> downloadInstallationData(params)
    [] op = "getInstallationTags" -> getInstallationTags(params)
    [] op = "getCustomWidget" -> getCustomWidget(params)
    [] op = "getDynamicEssSettings" -> getDynamicEssSettings(params)
    [] op = "getDataAttributes" -> getDataAttributes(params)
    [] op = "getFirmwares" -> getFirmwares(params)
    [] op = "getResetForecasts" -> getResetForecasts(params)
    [] OTHER -> getWidget(op, params)

\* listInstallations: if (!idUser) the current user is fetched first
listInstallationsBegin(params) ==
  IF ~Truthy(Get(params, "idUser"))
    THEN Invoke("me", getUserMe)
    ELSE Invoke("last", listInstallationsCall(params, Get(params, "idUser")))

\* mutant of UserFetchFailed: the underlying error descriptor is kept
UserFetchFailedKeepsCause(userResponse) == userResponse

\* { ...userResponse, error: { code: "user_fetch_failed", ... } }
UserFetchFailed(userResponse) ==
  [userResponse EXCEPT !.error = ErrorOf("user_fetch_failed", Str(<<"Failed to fetch user ID">>))]

\* mutant of listInstallationsAfterMe: a failed /users/me response that carries
\* an idUser is used all the same
listInstallationsAfterMeAnyStatus(params, userResponse) ==
  IF ~Truthy(GetOpt(userResponse.data, "idUser"))
    THEN Returning(UserFetchFailed(userResponse))
    ELSE Invoke("last", listInstallationsCall(params, Get(userResponse.data, "idUser")))

\* listInstallations after `await this.getUserMe()`
listInstallationsAfterMe(params, userResponse) ==
  IF ~userResponse.ok \/ ~Truthy(GetOpt(userResponse.data, "idUser"))
    THEN Returning(UserFetchFailed(userResponse))
    ELSE Invoke("last", listInstallationsCall(params, Get(userResponse.data, "idUser")))

TimezoneNote ==
  "Time periods like 'today' may be calculated relative to UTC or server timezone, not the installation's local timezone."

EmptyWidgetNote ==
  "Widget returned empty data. Consider using get_diagnostics or get_stats for this data instead."

\* Object.keys(x).length === 0, for a truthy x
HasNoKeys(x) ==
  CASE x.k = "object" -> ObjectKeys(x) = {}
    [] x.k = "array" -> x.v = <<>>
    [] x.k = "string" -> FALSE
    [] OTHER -> TRUE

\* mutant of getOverallStatsAfter: the note is added whatever the type
getOverallStatsAfterAnyType(params, response) ==
  IF response.ok THEN [response EXCEPT !.meta.note = <<TimezoneNote>>] ELSE response

\* getOverallStats after `await this.vrmGet(...)`
getOverallStatsAfter(params, response) ==
  LET type == overallStatsType(params)
  IN IF response.ok /\ type \in {S("today"), S("yesterday"), S("month"), S("year")}
       THEN [response EXCEPT !.meta.note = <<TimezoneNote>>]
       ELSE response

\* mutant of getWidgetGraphAfter: the empty data is replaced along with the note
getWidgetGraphAfterRewrap(params, response) ==
  IF response.ok /\ (~Truthy(response.data) \/ HasNoKeys(response.data))
    THEN [response EXCEPT !.meta.note = <<EmptyWidgetNote>>, !.data = Null]
    ELSE response

\* mutant of getWidgetGraphAfter: no note is ever added
getWidgetGraphAfterSilent(params, response) == response

\* getWidgetGraph after `await this.vrmGet(...)`
getWidgetGraphAfter(params, response) ==
  IF response.ok /\ (~Truthy(response.data) \/ HasNoKeys(response.data))
    THEN [response EXCEPT !.meta.note = <<EmptyWidgetNote>>]
    ELSE response

\* the largest time value a Date holds (8.64e15 ms), counted in the unit the
\* model counts start and end in
MaxTimeValue == 8

\* Buffer.from(x, 'base64').toString('utf-8'): a string is decoded, an array
\* is taken as bytes (an element that is no number counts 0), anything else
\* is a TypeError
decodePayload(x) ==
  CASE x.k = "string" -> [thrown |-> FALSE, text |-> base64Decode(x.v)]
    [] x.k = "array" ->
         [ thrown |-> FALSE,
           text |-> [i \in 1..Len(x.v) |->
                       LET byte == IF x.v[i].k = "number" THEN x.v[i].v % 256 ELSE 0
                       IN IF byte < 128 THEN byte ELSE 65533] ]
    [] OTHER -> [thrown |-> TRUE, text |-> <<>>]

\* mutant of downloadInstallationDataAfter: the envelope of vrmGet is returned
\* as it is
downloadInstallationDataAfterUntouched(params, response, now) == response

\* downloadInstallationData after `await this.vrmGet(...)`; now is Date.now()
downloadInstallationDataAfter(params, response, now) ==
  LET datatype == Or(Get(params, "datatype"), S("log"))
      format == Or(Get(params, "format"), S("csv"))
      decode == IF Get(params, "decode") # Undefined THEN Get(params, "decode") ELSE Bool(TRUE)
      start == Get(params, "start")
      end == Get(params, "end")
      \* new Date(x).toISOString() throws a RangeError beyond the range of Date
      IsoThrows(x) == x.k = "number" /\ (x.v > MaxTimeValue \/ x.v < -MaxTimeValue)
      \* params.start ? new Date(params.start).toISOString() : undefined
      IsoOf(x) == IF Truthy(x) THEN Str(<<"ISO ">> \o ToStr(x)) ELSE Undefined
      asContent ==
        [ k |-> "object",
          v |-> [ format |-> format, datatype |-> datatype,
                  timeRange |-> [start |-> start, end |-> end],
                  content |-> response.data, encoding |-> "base64",
                  filename |-> <<"installation_">> \o ToStr(Get(params, "siteId")) \o <<"_">>
                                 \o ToStr(datatype) \o <<"_">> \o Decimal(now) \o <<".">>
                                 \o ToStr(format) ] ]
      decoded == decodePayload(response.data)
      csv == parseCsv(decoded.text)
      asRecords ==
        [ k |-> "object",
          v |-> [ format |-> format, datatype |-> datatype,
                  timeRange |-> [ start |-> start, end |-> end,
                                  startISO |-> IsoOf(start), endISO |-> IsoOf(end) ],
                  records |-> csv.records,
                  summary |-> [totalRecords |-> Len(csv.records), columns |-> csv.columns] ] ]
  IN IF response.ok /\ Truthy(response.data) /\ Truthy(decode) /\ format = S("csv")
       THEN IF decoded.thrown \/ (Truthy(start) /\ IsoThrows(start))
                 \/ (Truthy(end) /\ IsoThrows(end))
              THEN [response EXCEPT !.data = asContent, !.meta.note = <<"Failed to parse CSV data, returning as base64">>]
              ELSE [response EXCEPT
                      !.data = asRecords,
                      !.meta.note = <<"CSV data parsed into structured format for easier analysis">>]
     ELSE IF response.ok /\ Truthy(response.data) THEN [response EXCEPT !.data = asContent]
     ELSE response

\* calling a method the client does not have is a TypeError
Begin(op, params) ==
  IF op = "listInstallations" THEN listInstallationsBegin(params)
  ELSE IF op = "getUserAccessTokens"
    THEN Throwing("TypeError", Str(<<"vrmClient.getUserAccessTokens is not a function">>))
  ELSE Invoke("last", FirstCall(op, params))

Resume(op, stage, params, response) ==
  IF op = "listInstallations" /\ stage = "me" THEN listInstallationsAfterMe(params, response)
  ELSE IF op = "getOverallStats" THEN Returning(getOverallStatsAfter(params, response))
  ELSE IF op = "getWidgetGraph" THEN Returning(getWidgetGraphAfter(params, response))
  ELSE Returning(response)

(***************************************************************************)
(* The tool-call handlers: index.ts (no validation of its own) and the     *)
(* zod variant (schema.parse before dispatch)                              *)
(***************************************************************************)
\* the schema that types a client method's parameter (ToolInputs[...])
OpTool ==
  [ getUserMe |-> "vrm_get_user_me",
    listInstallations |-> "vrm_list_installations",
    getSystemOverview |-> "vrm_get_system_overview",
    getStats |-> "vrm_get_stats",
    getOverallStats |-> "vrm_get_overall_stats",
    getAlarms |-> "vrm_get_alarms",
    getDiagnostics |-> "vrm_get_diagnostics",
    getWidgetGraph |-> "vrm_get_widget_graph",
    authLoginAsDemo |-> "vrm_auth_login_as_demo",
    authLogout |-> "vrm_auth_logout",
    searchUserInstallations |-> "vrm_search_user_installations",
    downloadGpsData |-> "vrm_download_gps_data",
    downloadInstallationData |-> "vrm_download_installation_data",
    getInstallationTags |-> "vrm_get_installation_tags",
    getCustomWidget |-> "vrm_get_custom_widget",
    getDynamicEssSettings |-> "vrm_get_dynamic_ess_settings",
    getDataAttributes |-> "vrm_get_data_attributes",
    getFirmwares |-> "vrm_get_firmwares",
    getResetForecasts |-> "vrm_get_reset_forecasts",
    getVeBusState |-> "vrm_get_vebus_state",
    getInverterChargerState |-> "vrm_get_inverter_charger_state",
    getChargerRelayState |-> "vrm_get_charger_relay_state",
    getSolarChargerRelayState |-> "vrm_get_solar_charger_relay_state",
    getGatewayRelayState |-> "vrm_get_gateway_relay_state",
    getGatewayRelayTwoState |-> "vrm_get_gateway_relay_two_state",
    getStatusWidget |-> "vrm_get_status_widget",
    getVeBusWarningsAlarms |-> "vrm_get_vebus_warnings_alarms",
    getInverterChargerWarningsAlarms |-> "vrm_get_inverter_charger_warnings_alarms",
    getBatterySummary |-> "vrm_get_battery_summary",
    getSolarChargerSummary |-> "vrm_get_solar_charger_summary",
    getEvChargerSummary |-> "vrm_get_ev_charger_summary",
    getGlobalLinkSummary |-> "vrm_get_global_link_summary",
    getMotorSummary |-> "vrm_get_motor_summary",
    getPvInverterStatus |-> "vrm_get_pv_inverter_status",
    getTankSummary |-> "vrm_get_tank_summary",
    getTempSummaryGraph |-> "vrm_get_temp_summary_graph",
    getDcMeter |-> "vrm_get_dc_meter",
    getBmsDiagnostics |-> "vrm_get_bms_diagnostics",
    getLithiumBms |-> "vrm_get_lithium_bms",
    getHistoricData |-> "vrm_get_historic_data",
    getIoExtender |-> "vrm_get_io_extender" ]

\* the switch of the 41-tool handler: every client method by its tool name,
\* and vrm_get_user_access_tokens, whose method the client does not have
ToolOpAll ==
  [ name \in {OpTool[op] : op \in DOMAIN OpTool} \cup {"vrm_get_user_access_tokens"} |->
      IF name = "vrm_get_user_access_tokens" THEN "getUserAccessTokens"
      ELSE CHOOSE op \in DOMAIN OpTool : OpTool[op] = name ]

validTools ==
  { "vrm_get_user_me", "vrm_list_installations", "vrm_get_system_overview",
    "vrm_get_stats", "vrm_get_overall_stats", "vrm_get_alarms",
    "vrm_get_diagnostics", "vrm_get_widget_graph" }

\* the switch of index.ts
ToolOp ==
  [ vrm_get_user_me |-> "getUserMe",
    vrm_list_installations |-> "listInstallations",
    vrm_get_system_overview |-> "getSystemOverview",
    vrm_get_stats |-> "getStats",
    vrm_get_overall_stats |-> "getOverallStats",
    vrm_get_alarms |-> "getAlarms",
    vrm_get_diagnostics |-> "getDiagnostics",
    vrm_get_widget_graph |-> "getWidgetGraph" ]

\* the switch of the zod variant
ToolOpDotted ==
  ("vrm.get_user_me" :> "getUserMe")
  @@ ("vrm.list_installations" :> "listInstallations")
  @@ ("vrm.get_system_overview" :> "getSystemOverview")
  @@ ("vrm.get_stats" :> "getStats")
  @@ ("vrm.get_overall_stats" :> "getOverallStats")
  @@ ("vrm.get_alarms" :> "getAlarms")
  @@ ("vrm.get_diagnostics" :> "getDiagnostics")
  @@ ("vrm.get_widget_graph" :> "getWidgetGraph")

\* names that `in` finds on every object through Object.prototype
ObjectPrototypeKeys == {"toString"}

UnknownTool(name) == Throwing("Error", Str(<<"Unknown tool: ", name>>))

\* A dispatch: the operation and parameters the handler settles on, or the
\* exception it throws before calling the client.
Dispatched(op, params) == [thrown |-> FALSE, op |-> op, params |-> params]

NotDispatched(step) == [thrown |-> TRUE, step |-> step]

\* index.ts: validTools.includes, then `args || {}`
DispatchIndex(name, args) ==
  IF name \notin validTools THEN NotDispatched(UnknownTool(name))
  ELSE Dispatched(ToolOp[name], Or(args, EmptyObject))

\* the zod variant: `toolName in toolSchemas`, then schema.parse(args)
DispatchZod(name, args) ==
  IF name \notin (DOMAIN toolSchemasDotted \cup ObjectPrototypeKeys)
    THEN NotDispatched(UnknownTool(name))
  ELSE IF name \notin DOMAIN toolSchemasDotted
    THEN NotDispatched(Throwing("TypeError", Str(<<"schema.parse is not a function">>)))
  ELSE LET parsed == parse(toolSchemasDotted[name], args)
       IN IF parsed.success THEN Dispatched(ToolOpDotted[name], parsed.data)
          ELSE NotDispatched(Throwing("ZodError", Str(<<"ZodError">>)))

\* entry "tools" is the 41-tool handler: validTools.includes, `args || {}`
Dispatch(entry, name, args) ==
  CASE entry = "index" -> DispatchIndex(name, args)
    [] entry = "tools" ->
         IF name \notin DOMAIN ToolOpAll THEN NotDispatched(UnknownTool(name))
         ELSE Dispatched(ToolOpAll[name], Or(args, EmptyObject))
    [] entry = "zod" -> DispatchZod(name, args)
    [] OTHER -> Dispatched(name, args)

\* the catch block of the handlers
CatchCode(entry, exc) ==
  IF entry = "zod" /\ exc.name = "ZodError" THEN "validation_error" ELSE "tool_error"

NoException == [name |-> "", message |-> Undefined]

NoValue == [ok |-> FALSE, error |-> <<>>]

NoResult == [kind |-> "none", isError |-> <<>>, value |-> NoValue, exc |-> NoException]

\* mutant of Finish: the handlers have no catch block
FinishNoCatch(entry, step) ==
  IF step.kind = "return"
    THEN [kind |-> "returned", isError |-> <<>>, value |-> step.value, exc |-> NoException]
    ELSE [kind |-> "thrown", isError |-> <<>>, value |-> NoValue, exc |-> step.exc]

\* what the entry point hands its caller when the operation returns or throws
Finish(entry, step) ==
  IF step.kind = "return"
    THEN [kind |-> "returned", isError |-> <<>>, value |-> step.value, exc |-> NoException]
  ELSE IF entry = "client"
    THEN [kind |-> "thrown", isError |-> <<>>, value |-> NoValue, exc |-> step.exc]
  ELSE [ kind |-> "returned", isError |-> <<TRUE>>,
         value |-> [ok |-> FALSE, error |-> ErrorOf(CatchCode(entry, step.exc), step.exc.message)],
         exc |-> NoException ]

(***************************************************************************)
(* Inputs: the bounded sets the calls and the transport outcomes are drawn *)
(* from                                                                    *)
(***************************************************************************)
MaxId == 12
MaxCodes == 2
MaxRequestId == 1

RequestIds == 1..MaxRequestId

Codes == <<S("Pb"), S("Pc"), S("kwh"), S("Bc")>>

\* the values tried for an argument key (Undefined: the key is absent)
Cand(key) ==
  CASE key = "siteId" -> {Undefined, Num(MaxId), Num(-1), Str(Decimal(MaxId))}
    [] key = "idUser" -> {Undefined, Num(MaxId), Num(0), Str(<<"abc">>)}
    [] key = "extended" -> {Undefined, Bool(TRUE)}
    [] key = "type" -> {Undefined, S("venus"), S("custom"), S("today")}
    [] key = "interval" -> {Undefined, S("hours"), Str(<<>>)}
    [] key = "start" -> {Undefined, Num(5)}
    [] key = "end" -> {Undefined, Null}
    [] key = "attributeCodes" ->
         {Undefined} \cup {Arr(SubSeq(Codes, 1, n)) : n \in 0..MaxCodes}
    [] key = "activeOnly" -> {Undefined, Bool(TRUE)}
    [] key = "page" -> {Undefined, Num(2)}
    [] key = "pageSize" -> {Undefined, Num(201)}
    [] key = "count" -> {Undefined, Num(5)}
    [] key = "offset" -> {Undefined, Num(0)}
    [] key = "instance" -> {Undefined, Num(0)}
    [] key = "query" -> {Undefined, S("farm")}
    [] key = "limit" -> {Undefined, Num(10)}
    [] key = "filter" -> {Undefined, S("f")}
    [] key = "sort" -> {Undefined, S("s")}
    [] key = "version" -> {Undefined, S("v")}
    [] OTHER -> {Undefined, S("x")}

RECURSIVE Product(_)
\* the functions on keys that take each key to one of its candidates
Product(keys) ==
  IF keys = {} THEN {<<>>}
  ELSE LET key == CHOOSE x \in keys : TRUE
       IN {(key :> x) @@ f : x \in Cand(key), f \in Product(keys \ {key})}

\* the argument objects tried on a tool whose schema declares `keys`: every
\* combination of candidates, with and without an undeclared key
ArgObjects(keys) == {Obj(f) : f \in Product(keys \cup {"extra"})}

IndexArgs(name) ==
  {Undefined} \cup
    (IF name \in DOMAIN toolSchemas
       THEN ArgObjects(DOMAIN toolSchemas[name].shape) ELSE ArgObjects({}))

ZodArgs(name) ==
  {Undefined} \cup
    (IF name \in DOMAIN toolSchemasDotted
       THEN ArgObjects(DOMAIN toolSchemasDotted[name].shape) ELSE ArgObjects({}))

\* a client method is called with a parameter of its declared type
TypedParams(op) ==
  LET schema == toolSchemas[OpTool[op]]
  IN {a \in ArgObjects(DOMAIN schema.shape) : parse(schema, a).success}

Statuses == {200, 204, 301, 400, 401, 403, 404, 422, 429, 500}

\* parsed response bodies
Bodies ==
  { EmptyObject, Null, Num(5),
    Obj([records |-> Arr(<<>>)]),
    Obj([records |-> Arr(<<Obj([name |-> S("Site")])>>)]),
    Obj([records |-> Num(0), name |-> S("n")]),
    Obj([idUser |-> Num(MaxId)]),
    Obj([idUser |-> S("me")]),
    Obj([message |-> S("Invalid parameters")]) }

Response(status, json) == [rejected |-> FALSE, status |-> status, json |-> json, err |-> <<>>]

Rejection(err) == [rejected |-> TRUE, status |-> 0, json |-> <<>>, err |-> err]

Outcomes ==
  {Response(st, <<b>>) : st \in {x \in Statuses : ResponseOk(x)}, b \in Bodies}
  \cup {Response(st, <<b>>) : st \in {x \in Statuses : ~ResponseOk(x)},
                               b \in { Null, Obj([message |-> S("Invalid parameters")]),
                                        Obj([idUser |-> Num(MaxId)]) }}
  \cup {Response(st, <<>>) : st \in Statuses}
  \cup {Rejection(<<"Network error">>), Rejection(<<>>)}

(***************************************************************************)
(* The state machine                                                       *)
(***************************************************************************)
NoCall == [entry |-> "none", name |-> "", args |-> Undefined, op |-> "", params |-> Undefined]

NoFrame == [stage |-> "", path |-> <<>>, requestId |-> 0]

\* subject and verdict belong to SpecSchemas: a schema under test with its
\* input, and what parse made of it
NoSubject == [name |-> "", input |-> Undefined]

NoVerdict == [done |-> FALSE, success |-> FALSE, data |-> Undefined]

Init ==
  /\ \E env \in Environments : client = constructor(env)
  /\ pc = IF client.constructed THEN "idle" ELSE "crashed"
  /\ call = NoCall
  /\ frame = NoFrame
  /\ net = <<>>
  /\ got = <<>>
  /\ result = NoResult
  /\ subject = NoSubject
  /\ verdict = NoVerdict

\* the effect of a step of the invocation under way: a fetch goes out, or the
\* entry point hands its result to the caller
Take(entry, step, sent, requestId) ==
  IF step.kind = "await"
    THEN /\ pc' = "await"
         /\ frame' = [stage |-> step.stage, path |-> step.path, requestId |-> requestId]
         /\ net' = Append(sent, FetchCall(client, step.path, step.query))
         /\ result' = NoResult
    ELSE /\ pc' = "done"
         /\ frame' = NoFrame
         /\ net' = sent
         /\ result' = Finish(entry, step)

\* a request arrives at an entry point and runs up to its first await
Enter(entry, name, args, requestId) ==
  LET d == Dispatch(entry, name, args)
  IN /\ pc = "idle"
     /\ call' = IF d.thrown
                  THEN [entry |-> entry, name |-> name, args |-> args, op |-> "", params |-> Undefined]
                  ELSE [entry |-> entry, name |-> name, args |-> args, op |-> d.op, params |-> d.params]
     /\ got' = <<>>
     /\ Take(entry, IF d.thrown THEN d.step ELSE Begin(d.op, d.params), <<>>, requestId)
     /\ UNCHANGED <<client, subject, verdict>>

CallToolIndex ==
  \E name \in validTools \cup {"vrm_get_firmwares", "unknown_tool"} : \E args \in IndexArgs(name) : \E requestId \in RequestIds :
    Enter("index", name, args, requestId)

CallToolZod ==
  \E name \in DOMAIN toolSchemasDotted \cup {"vrm_get_user_me", "toString"} : \E args \in ZodArgs(name) : \E requestId \in RequestIds :
    Enter("zod", name, args, requestId)

ClientCall ==
  \E op \in ClientOps : \E params \in TypedParams(op) : \E requestId \in RequestIds :
    Enter("client", op, params, requestId)

\* the pending fetch settles and the invocation runs on
FetchSettles ==
  /\ pc = "await"
  /\ \E outcome \in Outcomes : \E requestId \in RequestIds :
       LET response == vrmGetSettle(frame.path, frame.requestId, outcome)
       IN /\ got' = Append(got, outcome)
          /\ Take(call.entry, Resume(call.op, frame.stage, call.params, response), net, requestId)
  /\ UNCHANGED <<client, call, subject, verdict>>

\* the result has gone to the caller; nothing of the invocation is kept
Respond ==
  /\ pc = "done"
  /\ pc' = "idle"
  /\ call' = NoCall
  /\ frame' = NoFrame
  /\ net' = <<>>
  /\ got' = <<>>
  /\ result' = NoResult
  /\ UNCHANGED <<client, subject, verdict>>

Next == CallToolIndex \/ CallToolZod \/ ClientCall \/ FetchSettles \/ Respond

Spec == Init /\ [][Next]_vars

(***************************************************************************)
(* SpecSchemas: the validator alone.  Init draws a schema and an input,    *)
(* Validate applies schema.parse to it.                                    *)
(***************************************************************************)
SchemaNames == DOMAIN toolSchemas \cup DOMAIN toolSchemasDotted

SchemaOf(name) ==
  IF name \in DOMAIN toolSchemas THEN toolSchemas[name] ELSE toolSchemasDotted[name]

\* keys that some schema declares and this one does not, and the key "extra"
\* that none declares
Undeclared(name) == {"extra", "siteId", "idUser", "instance"} \ DOMAIN SchemaOf(name).shape

\* inputs for a schema: every combination of candidates for its declared
\* keys, alone and with one undeclared key added
SchemaInputs(name) ==
  {Undefined} \cup
  { Obj(f @@ g) :
      f \in Product(DOMAIN SchemaOf(name).shape),
      g \in {<<>>} \cup
              UNION {{(u :> x) : x \in Cand(u) \ {Undefined}} : u \in Undeclared(name)} }

InitSchemas ==
  /\ client = constructor(CHOOSE env \in Environments : env.VRM_TOKEN = <<"secret">> /\ env.VRM_BASE_URL = <<>>)
  /\ pc = "idle"
  /\ call = NoCall
  /\ frame = NoFrame
  /\ net = <<>>
  /\ got = <<>>
  /\ result = NoResult
  /\ \E name \in SchemaNames : \E input \in SchemaInputs(name) :
       subject = [name |-> name, input |-> input]
  /\ verdict = NoVerdict

Validate ==
  /\ ~verdict.done
  /\ LET parsed == parse(SchemaOf(subject.name), subject.input)
     IN verdict' = [done |-> TRUE, success |-> parsed.success, data |-> parsed.data]
  /\ UNCHANGED <<client, pc, call, frame, net, got, result, subject>>

NextSchemas == Validate

SpecSchemas == InitSchemas /\ [][NextSchemas]_vars

(***************************************************************************)
(* SpecClient: the client's methods called directly, downloadInstallation- *)
(* Data among them, with the payloads a download is answered with          *)
(***************************************************************************)
MaxLines == 3

RECURSIVE JoinLines(_)
\* lines.join('\n')
JoinLines(lines) ==
  IF lines = <<>> THEN <<>>
  ELSE IF Len(lines) = 1 THEN lines[1]
  ELSE lines[1] \o <<10>> \o JoinLines(Tail(lines))

\* the texts of up to MaxLines lines out of  "a,b"  "a, a"  "03,, b"  " "
CsvTexts ==
  LET CsvLines ==
        << <<97, 44, 98>>, <<97, 44, 32, 97>>, <<48, 51, 44, 44, 32, 98>>, <<32>> >>
  IN UNION { {JoinLines([i \in 1..n |-> CsvLines[pick[i]]]) : pick \in [1..n -> 1..Len(CsvLines)]}
             : n \in 0..MaxLines }

\* what the data-download endpoint is answered with: CSV text in base64,
\* strings that are no base64, and bodies that are no string at all
DownloadOutcomes ==
  {Response(200, <<Str(base64Encode(text))>>) : text \in CsvTexts}
  \cup {Response(200, <<b>>) :
          b \in { Str(<<"!", "!", "!", "!">>), Str(<<"%", "a", " ", "b", "%">>),
                  Obj([name |-> S("not-base64-data!")]), Num(5), Null, Arr(<<>>),
                  Obj([records |-> Arr(<<Obj([name |-> S("Site")])>>)]) }}
  \cup {Response(404, <<Null>>), Response(500, <<>>), Rejection(<<"Network error">>)}

\* the parameters a method is called with: of its declared type
ClientParams(op) ==
  LET DownloadParams ==
        { Obj([ siteId |-> Num(MaxId), datatype |-> datatype, format |-> format,
                decode |-> decode, start |-> start, end |-> end ]) :
            datatype \in {Undefined, S("kwh")}, format \in {Undefined, S("xlsx")},
            decode \in {Undefined, Bool(FALSE)},
            start \in {Undefined, Num(5), Num(MaxTimeValue + 1)},
            end \in {Undefined, Num(5)} }
  IN IF op = "downloadInstallationData"
       THEN {p \in DownloadParams : parse(toolSchemas[OpTool[op]], p).success}
       ELSE TypedParams(op)

CallClient ==
  \E op \in ClientOps \cup {"downloadInstallationData"} :
    \E params \in ClientParams(op) : \E requestId \in RequestIds :
      Enter("client", op, params, requestId)

\* the fetch of downloadInstallationData settles and the method runs on; now
\* is what Date.now() returns
SettleDownload ==
  /\ pc = "await"
  /\ call.op = "downloadInstallationData"
  /\ \E outcome \in DownloadOutcomes : \E now \in {1700, 1701} : \E requestId \in RequestIds :
       LET response == vrmGetSettle(frame.path, frame.requestId, outcome)
       IN /\ got' = Append(got, outcome)
          /\ Take(call.entry,
                  Returning(downloadInstallationDataAfter(call.params, response, now)),
                  net, requestId)
  /\ UNCHANGED <<client, call, subject, verdict>>

NextClient ==
  \/ CallClient
  \/ (call.op # "downloadInstallationData" /\ FetchSettles)
  \/ SettleDownload
  \/ Respond

SpecClient == Init /\ [][NextClient]_vars

(***************************************************************************)
(* SpecTools: the 41-tool handler, called with arguments the tool's schema *)
(* accepts                                                                 *)
(***************************************************************************)
CallToolAll ==
  \E name \in DOMAIN ToolOpAll : \E requestId \in RequestIds :
    \E args \in {a \in ArgObjects(DOMAIN toolSchemas[name].shape) \cup {Undefined} :
                   parse(toolSchemas[name], a).success} :
      Enter("tools", name, args, requestId)

NextTools ==
  \/ CallToolAll
  \/ (call.op # "downloadInstallationData" /\ FetchSettles)
  \/ SettleDownload
  \/ Respond

SpecTools == Init /\ [][NextTools]_vars

(***************************************************************************)
(* SpecConcurrent: the handler of index.ts entered again while earlier     *)
(* invocations await their fetch.  What an invocation holds in the locals  *)
(* of its async functions is kept per invocation: pc, call, frame, got and *)
(* result are functions of the invocation, and got pairs each outcome with *)
(* the request id of its vrmGet.  The transport and the client are shared: *)
(* net holds the requests of all invocations in the order they went out.   *)
(***************************************************************************)
Invocations == {"a", "b"}

InitConcurrent ==
  /\ \E env \in Environments : client = constructor(env)
  /\ pc = [i \in Invocations |-> IF client.constructed THEN "idle" ELSE "crashed"]
  /\ call = [i \in Invocations |-> NoCall]
  /\ frame = [i \in Invocations |-> NoFrame]
  /\ net = <<>>
  /\ got = [i \in Invocations |-> <<>>]
  /\ result = [i \in Invocations |-> NoResult]
  /\ subject = NoSubject
  /\ verdict = NoVerdict

\* the effect of a step of invocation i: its fetch goes out, or the handler
\* hands its result to the caller
Advance(i, step, requestId) ==
  IF step.kind = "await"
    THEN /\ pc' = [pc EXCEPT ![i] = "await"]
         /\ frame' = [frame EXCEPT ![i] = [stage |-> step.stage, path |-> step.path,
                                           requestId |-> requestId]]
         /\ net' = Append(net, [by |-> i, request |-> FetchCall(client, step.path, step.query)])
         /\ result' = result
    ELSE /\ pc' = [pc EXCEPT ![i] = "done"]
         /\ frame' = [frame EXCEPT ![i] = NoFrame]
         /\ net' = net
         /\ result' = [result EXCEPT ![i] = Finish("index", step)]

\* a request arrives while others may be under way, and runs to its first await
StartTool ==
  \E i \in Invocations : \E requestId \in RequestIds :
    \E request \in
         { [name |-> "vrm_get_system_overview", args |-> Obj([siteId |-> Num(MaxId)])],
           [name |-> "vrm_get_system_overview", args |-> Obj([siteId |-> Num(-1)])],
           [name |-> "vrm_get_overall_stats",
            args |-> Obj([siteId |-> Num(MaxId), type |-> S("today"),
                          attributeCodes |-> Arr(<<S("Pb")>>)])],
           [name |-> "vrm_get_widget_graph",
            args |-> Obj([siteId |-> Num(MaxId), instance |-> Num(0),
                          attributeCodes |-> Arr(<<S("Pb")>>)])],
           [name |-> "vrm_list_installations", args |-> Undefined] } :
      LET d == Dispatch("index", request.name, request.args)
      IN /\ pc[i] = "idle"
         /\ call' = [call EXCEPT ![i] =
                       [ entry |-> "index", name |-> request.name, args |-> request.args,
                         op |-> IF d.thrown THEN "" ELSE d.op,
                         params |-> IF d.thrown THEN Undefined ELSE d.params ]]
         /\ got' = got
         /\ Advance(i, IF d.thrown THEN d.step ELSE Begin(d.op, d.params), requestId)
         /\ UNCHANGED <<client, subject, verdict>>

\* mutant of SettleTool: the path and the request id of the request under way
\* are kept in one place, which the latest vrmGet has overwritten
SettleToolShared ==
  \E i \in Invocations : \E requestId \in RequestIds :
    \E outcome \in { Response(200, <<Obj([records |-> Arr(<<Obj([name |-> S("Site")])>>)])>>),
                     Response(200, <<Obj([idUser |-> Num(MaxId)])>>),
                     Response(200, <<EmptyObject>>),
                     Response(429, <<Null>>),
                     Rejection(<<"Network error">>) } :
      LET latest == frame[net[Len(net)].by]
          response == vrmGetSettle(latest.path, latest.requestId, outcome)
      IN /\ pc[i] = "await"
         /\ got' = [got EXCEPT ![i] = Append(@, [requestId |-> frame[i].requestId,
                                                  outcome |-> outcome])]
         /\ Advance(i, Resume(call[i].op, frame[i].stage, call[i].params, response), requestId)
         /\ UNCHANGED <<client, call, subject, verdict>>

\* the fetch of some invocation settles, in any order, and that invocation
\* runs on from its await
SettleTool ==
  \E i \in Invocations : \E requestId \in RequestIds :
    \E outcome \in { Response(200, <<Obj([records |-> Arr(<<Obj([name |-> S("Site")])>>)])>>),
                     Response(200, <<Obj([idUser |-> Num(MaxId)])>>),
                     Response(200, <<EmptyObject>>),
                     Response(429, <<Null>>),
                     Rejection(<<"Network error">>) } :
      LET response == vrmGetSettle(frame[i].path, frame[i].requestId, outcome)
      IN /\ pc[i] = "await"
         /\ got' = [got EXCEPT ![i] = Append(@, [requestId |-> frame[i].requestId,
                                                  outcome |-> outcome])]
         /\ Advance(i, Resume(call[i].op, frame[i].stage, call[i].params, response), requestId)
         /\ UNCHANGED <<client, call, subject, verdict>>

\* the result of an invocation has gone to its caller; nothing of it is kept
RespondTool ==
  \E i \in Invocations :
    LET Others(entry) == entry.by # i
    IN /\ pc[i] = "done"
       /\ pc' = [pc EXCEPT ![i] = "idle"]
       /\ call' = [call EXCEPT ![i] = NoCall]
       /\ frame' = [frame EXCEPT ![i] = NoFrame]
       /\ net' = SelectSeq(net, Others)
       /\ got' = [got EXCEPT ![i] = <<>>]
       /\ result' = [result EXCEPT ![i] = NoResult]
       /\ UNCHANGED <<client, subject, verdict>>

NextConcurrent == StartTool \/ SettleTool \/ RespondTool

SpecConcurrent == InitConcurrent /\ [][NextConcurrent]_vars

(***************************************************************************)
(* SpecFields: the validator, one field at a time.  Init draws a schema    *)
(* and an input that is valid but, possibly, for one field, which takes    *)
(* values on both sides of every enum and of every bound.                  *)
(***************************************************************************)
\* the values tried for a field of schema s
FieldProbes(s) ==
  CASE s.type = "number" ->
         {Num(n) : n \in {-1, 0, 1, 2, 99, 100, 101, 199, 200, 201, 999, 1000, 1001}}
         \cup {Str(<<"1">>), Null}
    [] s.type = "enum" ->
         {S(x) : x \in { "venus", "live_feed", "consumption", "kwh", "solar_yield", "forecast",
                         "custom", "today", "yesterday", "month", "year",
                         "log", "benchmark",
                         "csv", "excelxml", "xls", "xlsx",
                         "json", "CSV", "invalid", "" }}
         \cup {Num(1), Null}
    [] s.type = "array" ->
         {Arr(SubSeq(Codes, 1, n)) : n \in 0..MaxCodes} \cup {Arr(<<Num(1)>>), S("Pb")}
    [] s.type = "string" -> {S("x"), Num(1)}
    [] OTHER -> {Bool(TRUE), Bool(FALSE), S("true")}

\* the required fields of a schema, each with a value it accepts
Baseline(name) ==
  LET shape == SchemaOf(name).shape
      BaseValue(s) ==
        CASE s.type = "number" -> Num(1)
          [] s.type = "enum" -> Str(CHOOSE x \in s.values : TRUE)
          [] s.type = "array" -> Arr(<<S("Pb")>>)
          [] s.type = "string" -> S("x")
          [] OTHER -> Bool(TRUE)
  IN [key \in {x \in DOMAIN shape : ~shape[x].optional} |-> BaseValue(shape[key])]

FieldInputs(name) ==
  {Obj(Baseline(name))} \cup
  UNION { {Obj((key :> x) @@ Baseline(name)) : x \in FieldProbes(SchemaOf(name).shape[key])} :
          key \in DOMAIN SchemaOf(name).shape }

InitFields ==
  /\ client = constructor(CHOOSE env \in Environments : env.VRM_TOKEN = <<"secret">> /\ env.VRM_BASE_URL = <<>>)
  /\ pc = "idle"
  /\ call = NoCall
  /\ frame = NoFrame
  /\ net = <<>>
  /\ got = <<>>
  /\ result = NoResult
  /\ \E name \in SchemaNames : \E input \in FieldInputs(name) :
       subject = [name |-> name, input |-> input]
  /\ verdict = NoVerdict

SpecFields == InitFields /\ [][NextSchemas]_vars

(***************************************************************************)
(* Properties.  Vocabulary shared by the statements below.                 *)
(***************************************************************************)
Invoked == pc \in {"await", "done"}

HandlerCall == call.entry \in {"index", "zod"}

\* the code of the error descriptor of the result, "" when it has none
ResultCode == IF result.value.error = <<>> THEN "" ELSE result.value.error[1].code

\* the message of the exception the invocation ended with: the exception a
\* client method threw, or the message a handler's catch block reported
RaisedMessage ==
  IF result.kind = "thrown" THEN result.exc.message
  ELSE IF result.isError = <<TRUE>> THEN result.value.error[1].message
  ELSE Undefined

RaisedDisallowed ==
  /\ pc = "done"
  /\ RaisedMessage.k = "string"
  /\ RaisedMessage.v # <<>>
  /\ Head(RaisedMessage.v) = "Disallowed path: "

DisallowedPath == Tail(RaisedMessage.v)

\* listInstallations called without an idUser
Composite == call.op = "listInstallations" /\ Get(call.params, "idUser") = Undefined

\* the parsed body of a response, as vrmGet reads it
BodyOf(outcome) == IF outcome.json = <<>> THEN EmptyObject ELSE outcome.json[1]

Failed(outcome) == outcome.rejected \/ ~ResponseOk(outcome.status)

\* the path of the first vrmGet of the invocation under way
FirstPlan ==
  IF call.op # "listInstallations" THEN FirstCall(call.op, call.params)
  ELSE IF Truthy(Get(call.params, "idUser"))
    THEN listInstallationsCall(call.params, Get(call.params, "idUser"))
  ELSE getUserMe

ClaimedCode(status) ==
  CASE status \in {401, 403} -> "auth"
    [] status = 404 -> "not_found"
    [] status \in {400, 422} -> "bad_request"
    [] status = 429 -> "rate_limited"
    [] OTHER -> "unknown_error"

\* C2 as stated: a transport exception gives ok=false, network_error and
\* meta.status 0; 401/403 give auth, 404 not_found, 400/422 bad_request, 429
\* rate_limited, any other non-2xx unknown_error; 2xx gives ok=true; and
\* meta.rateLimited is true exactly when the status is 429.
C2_AsStated ==
  (pc = "done" /\ call.op \in SingleCallOps /\ Len(got) = 1 /\ result.kind = "returned"
     /\ result.isError = <<>>)
    => LET outcome == got[1]
           envelope == result.value
       IN /\ envelope.meta.rateLimited <=> (~outcome.rejected /\ outcome.status = 429)
          /\ IF outcome.rejected
               THEN ~envelope.ok /\ ResultCode = "network_error" /\ envelope.meta.status = 0
             ELSE IF ResponseOk(outcome.status) THEN envelope.ok
             ELSE ~envelope.ok /\ ResultCode = ClaimedCode(outcome.status)

(***************************************************************************)
(* C3                                                                      *)
(***************************************************************************)
\* C3 as stated: in every envelope a client method returns, the error
\* descriptor is present if and only if ok is false.
C3_AsStated ==
  (pc = "done" /\ call.op # "" /\ result.kind = "returned" /\ result.isError = <<>>)
    => (result.value.error # <<>> <=> ~result.value.ok)

(***************************************************************************)
(* C4                                                                      *)
(***************************************************************************)
\* C4: listInstallations without an idUser requests /users/me first and makes
\* at most two requests; the second goes out only after the first has
\* settled, only when the first succeeded with a usable idUser, and is the
\* installations request for that idUser.
C4_CompositeOrder ==
  (Composite /\ Invoked) =>
    /\ Len(net) \in {1, 2}
    /\ net[1].url.path = <<"/users/me">>
    /\ Len(net) <= Len(got) + 1
    /\ Len(net) = 2 =>
         LET idUser == GetOpt(Unwrap(BodyOf(got[1])), "idUser")
         IN /\ ~Failed(got[1])
            /\ Truthy(idUser)
            /\ net[2].url.path = <<"/users/">> \o ToStr(idUser) \o <<"/installations">>

\* both requests went out and the listing came back
C4_Witness ==
  /\ Composite
  /\ pc = "done"
  /\ Len(net) = 2
  /\ net[2].url.path = <<"/users/">> \o Decimal(MaxId) \o <<"/installations">>
  /\ result.kind = "returned"
  /\ result.value.ok

(***************************************************************************)
(* C5                                                                      *)
(***************************************************************************)
\* C5: when the /users/me call of listInstallations fails, the result has
\* ok=false and code user_fetch_failed, keeps the meta and the endpoint
\* /users/me of that call, and no installations request is made.
C5_UserFetchFailed ==
  (Composite /\ pc = "done" /\ Len(got) >= 1 /\ Failed(got[1])) =>
    /\ result.kind \in {"returned"}
    /\ ~result.value.ok
    /\ ResultCode = "user_fetch_failed"
    /\ result.value.meta = vrmGetSettle(<<"/users/me">>, result.value.requestId, got[1]).meta
    /\ result.value.endpoint = <<"/users/me">>
    /\ Len(net) = 1
    /\ Len(got) = 1

\* /users/me answered 401
C5_Witness ==
  /\ Composite
  /\ pc = "done"
  /\ Len(got) = 1
  /\ ~got[1].rejected
  /\ got[1].status = 401
  /\ ResultCode = "user_fetch_failed"
  /\ result.value.meta.status = 401

(***************************************************************************)
(* C6                                                                      *)
(***************************************************************************)
\* the tool of the call under way is one the handler knows
KnownTool ==
  \/ call.entry = "index" /\ call.name \in validTools
  \/ call.entry = "zod" /\ call.name \in DOMAIN toolSchemasDotted

\* the schema declared for the tool of the call under way
CallSchema ==
  IF call.entry = "index" THEN toolSchemas[call.name] ELSE toolSchemasDotted[call.name]

ViolatesSchema == ~parse(CallSchema, call.args).success

\* C6 as stated: a tool call whose arguments violate the tool's schema ends
\* with an error result of code validation_error (ok=false, isError set), and
\* neither a client operation nor a network request is made for it.
C6_AsStated ==
  (HandlerCall /\ Invoked /\ KnownTool /\ call.args.k = "object" /\ ViolatesSchema)
    => /\ pc = "done"
       /\ result.kind = "returned"
       /\ result.isError = <<TRUE>>
       /\ ~result.value.ok
       /\ ResultCode = "validation_error"
       /\ call.op = ""
       /\ net = <<>>

(***************************************************************************)
(* C7                                                                      *)
(***************************************************************************)
UnknownName == HandlerCall /\ ~KnownTool

\* the client operation the handler called threw: at its start, or when it
\* went on after its first request
DispatcherThrew ==
  /\ call.op # ""
  /\ LET first == Begin(call.op, call.params)
     IN \/ first.kind = "throw"
        \/ /\ first.kind = "await"
           /\ first.stage = "me"
           /\ Len(got) = 1
           /\ Resume(call.op, "me", call.params,
                     vrmGetSettle(first.path, 1, got[1])).kind = "throw"

IsToolError ==
  /\ result.isError = <<TRUE>>
  /\ ~result.value.ok
  /\ ResultCode = "tool_error"

\* C7: a tool call always ends with a result handed back, never with an
\* exception; an unknown tool name, and an exception thrown by the client
\* operation (an allowlist violation included), give a result with isError
\* set, ok=false and code tool_error; and an unknown tool name causes no
\* network request.
C7_HandlerNeverThrows ==
  /\ (HandlerCall /\ pc = "done") =>
       /\ result.kind = "returned"
       /\ (UnknownName \/ DispatcherThrew) => IsToolError
  /\ (UnknownName /\ Invoked) => (pc = "done" /\ net = <<>> /\ got = <<>>)

\* the handler of index.ts reports an allowlist violation of the client
C7_Witness ==
  /\ call.entry = "index"
  /\ pc = "done"
  /\ DispatcherThrew
  /\ RaisedDisallowed
  /\ IsToolError

(***************************************************************************)
(* C8                                                                      *)
(***************************************************************************)
\* C8: every request sent uses the method GET, carries exactly the headers
\* X-Authorization, with the value '<tokenKind> <token>' of the client's
\* configuration, and Accept: application/json, and has no body.
C8_RequestShape ==
  \A i \in 1..Len(net) :
    /\ net[i].method = "GET"
    /\ DOMAIN net[i].headers = {"X-Authorization", "Accept"}
    /\ net[i].headers["X-Authorization"] = <<client.tokenKind, " ", client.token>>
    /\ net[i].headers["Accept"] = <<"application/json">>
    /\ net[i].body = <<>>

\* both requests of a listing have gone out under a Bearer configuration
C8_Witness ==
  /\ Len(net) = 2
  /\ client.tokenKind = "Bearer"
  /\ client.token = "secret"

(***************************************************************************)
(* C9                                                                      *)
(***************************************************************************)
\* the body has a top-level field `records`
HasRecords(body) == body.k = "object" /\ body.v["records"] # Undefined

\* the invocation ended with the envelope vrmGet made of a 2xx response
Ended2xx ==
  /\ pc = "done"
  /\ call.op # ""
  /\ result.kind = "returned"
  /\ result.isError = <<>>
  /\ Len(got) >= 1
  /\ Len(got) = Len(net)
  /\ ~Failed(got[Len(got)])

\* C9 as stated: for a 2xx response, the envelope's data is the body's
\* top-level records field if the body has one, and the whole body otherwise.
C9_AsStated ==
  Ended2xx =>
    LET body == BodyOf(got[Len(got)])
    IN result.value.data = IF HasRecords(body) THEN body.v["records"] ELSE body

\* C9, amended: for a 2xx response, the envelope's data is the body's
\* top-level records field if the body has one whose value is truthy, and the
\* whole body otherwise: also when records is 0, "", false or null, and the
\* empty object when the body is not JSON.
C9_RecordsUnwrapped ==
  Ended2xx =>
    LET body == BodyOf(got[Len(got)])
    IN result.value.data =
         IF HasRecords(body) /\ Truthy(body.v["records"]) THEN body.v["records"] ELSE body

\* an empty records array is unwrapped
C9_Witness ==
  /\ Ended2xx
  /\ HasRecords(BodyOf(got[Len(got)]))
  /\ result.value.data = Arr(<<>>)

(***************************************************************************)
(* C10 (under SpecSchemas)                                                 *)
(***************************************************************************)
\* the keys the schema under test declares
DeclaredKeys == DOMAIN SchemaOf(subject.name).shape

\* the input under test is an object with a field its schema does not declare
HasUndeclaredField ==
  subject.input.k = "object" /\ ObjectKeys(subject.input) \ DeclaredKeys # {}

\* the input under test with its undeclared fields taken away
WithoutUndeclared ==
  Obj([key \in ObjectKeys(subject.input) \cap DeclaredKeys |-> subject.input.v[key]])

\* C10: for every declared operation, validating an argument object with an
\* undeclared field fails, whether or not the other fields are valid; and the
\* validated arguments never hold a field the schema does not declare.
C10_StrictSchemas ==
  verdict.done =>
    /\ HasUndeclaredField => ~verdict.success
    /\ verdict.success => ObjectKeys(verdict.data) \subseteq DeclaredKeys

\* an input that is valid but for its undeclared field is rejected
C10_Witness ==
  /\ verdict.done
  /\ subject.name = "vrm_get_stats"
  /\ HasUndeclaredField
  /\ parse(SchemaOf(subject.name), WithoutUndeclared).success
  /\ ~verdict.success

(***************************************************************************)
(* C11 (under SpecSchemas)                                                 *)
(***************************************************************************)
\* the fields the schema under test declares without .optional()
RequiredKeys == {key \in DeclaredKeys : ~SchemaOf(subject.name).shape[key].optional}

\* a value of the type a required field is declared with: a number, a member
\* of the enum, a non-empty array of strings
OfDeclaredType(s, x) ==
  CASE s.type = "number" -> x.k = "number"
    [] s.type = "enum" -> x.k = "string" /\ x.v \in s.values
    [] s.type = "array" -> x.k = "array" /\ x.v # <<>> /\ \A i \in 1..Len(x.v) : x.v[i].k = "string"
    [] OTHER -> x.k = s.type

\* the input under test supplies every required field with a value of its
\* type and nothing else
OnlyRequiredSupplied ==
  /\ subject.input.k = "object"
  /\ ObjectKeys(subject.input) = RequiredKeys
  /\ \A key \in RequiredKeys :
       OfDeclaredType(SchemaOf(subject.name).shape[key], subject.input.v[key])

SomeRequiredOmitted ==
  /\ subject.input.k = "object"
  /\ \E key \in RequiredKeys : subject.input.v[key] = Undefined

\* C11: validation fails whenever a required field is omitted; it succeeds
\* when every required field is supplied with a value of its type and every
\* optional field is omitted, and the validated arguments are then the
\* supplied object.
C11_RequiredFields ==
  verdict.done =>
    /\ SomeRequiredOmitted => ~verdict.success
    /\ OnlyRequiredSupplied => (verdict.success /\ verdict.data = subject.input)

\* vrm_get_widget_graph without its instance is rejected although the rest
\* is valid
C11_Witness ==
  /\ verdict.done
  /\ subject.name = "vrm_get_widget_graph"
  /\ subject.input.k = "object"
  /\ ObjectKeys(subject.input) = {"siteId", "attributeCodes"}
  /\ subject.input.v["siteId"] = Num(MaxId)
  /\ subject.input.v["attributeCodes"] = Arr(<<S("Pb")>>)
  /\ ~verdict.success

(***************************************************************************)
(* C12 (under SpecFields)                                                  *)
(***************************************************************************)
\* the members the statement gives for an enum field, {} for any other field
ClaimedMembers(name, key) ==
  CASE name \in {"vrm_get_stats", "vrm.get_stats"} /\ key = "type" ->
         {"venus", "live_feed", "consumption", "kwh", "solar_yield", "forecast"}
    [] name \in {"vrm_get_overall_stats", "vrm.get_overall_stats"} /\ key = "type" ->
         {"custom", "today", "yesterday", "month", "year"}
    [] name = "vrm_download_installation_data" /\ key = "format" ->
         {"csv", "excelxml", "xls", "xlsx"}
    [] OTHER -> {}

\* the input under test with the field `key` set to x
InputWith(key, x) == [subject.input EXCEPT !.v[key] = x]

\* the input under test is valid as far as its other fields go
RestValid(key, good) == parse(SchemaOf(subject.name), InputWith(key, good)).success

\* C12: stats type, overall-stats period type and download format accept
\* exactly the members of their declared sets: with the rest of the input
\* valid, a supplied value passes validation if and only if it is one of the
\* members.
C12_EnumMembers ==
  (verdict.done /\ subject.input.k = "object") =>
    \A key \in DeclaredKeys :
      LET members == ClaimedMembers(subject.name, key)
          x == subject.input.v[key]
      IN (members # {} /\ x # Undefined /\ RestValid(key, S(CHOOSE good \in members : TRUE)))
           => (verdict.success <=> x \in {S(member) : member \in members})

\* a download with format "json" is rejected
C12_Witness ==
  /\ verdict.done
  /\ subject.name = "vrm_download_installation_data"
  /\ subject.input.k = "object"
  /\ subject.input.v["format"] = S("json")
  /\ RestValid("format", S("csv"))
  /\ ~verdict.success

(***************************************************************************)
(* C13 (under SpecFields)                                                  *)
(***************************************************************************)
Alarms == {"vrm_get_alarms", "vrm.get_alarms"}

Diagnostics == {"vrm_get_diagnostics", "vrm.get_diagnostics"}

\* the bounds the statement gives for a numeric field: <<lo>> or <<lo, hi>>,
\* and <<>> for a field it does not bound
ClaimedBounds(name, key) ==
  CASE name \in Alarms /\ key = "page" -> <<1>>
    [] name \in Alarms /\ key = "pageSize" -> <<1, 200>>
    [] name \in Diagnostics /\ key = "count" -> <<1, 1000>>
    [] name \in Diagnostics \cup {"vrm_get_data_attributes"} /\ key = "offset" -> <<0>>
    [] name = "vrm_search_user_installations" /\ key = "limit" -> <<1, 100>>
    [] OTHER -> <<>>

Within(bounds, n) == n >= bounds[1] /\ (Len(bounds) = 2 => n <= bounds[2])

IsStringArray(x) == x.k = "array" /\ \A i \in 1..Len(x.v) : x.v[i].k = "string"

\* C13: with the rest of the input valid, a number supplied for page,
\* pageSize, count, offset or the search limit passes validation if and only
\* if it lies within the declared bounds, and an array of strings supplied for
\* attributeCodes passes if and only if it has at least one element.
C13_Bounds ==
  (verdict.done /\ subject.input.k = "object") =>
    \A key \in DeclaredKeys :
      LET bounds == ClaimedBounds(subject.name, key)
          x == subject.input.v[key]
      IN /\ (bounds # <<>> /\ x.k = "number" /\ RestValid(key, Num(bounds[1])))
              => (verdict.success <=> Within(bounds, x.v))
         /\ (key = "attributeCodes" /\ IsStringArray(x) /\ RestValid(key, Arr(<<S("Pb")>>)))
              => (verdict.success <=> Len(x.v) >= 1)

\* pageSize 201 is rejected
C13_Witness ==
  /\ verdict.done
  /\ subject.name = "vrm_get_alarms"
  /\ subject.input.k = "object"
  /\ subject.input.v["pageSize"] = Num(201)
  /\ RestValid("pageSize", Num(200))
  /\ ~verdict.success

(***************************************************************************)
(* C14                                                                     *)
(***************************************************************************)
IsCodeParam(pair) == pair[1] = "attributeCodes[]"

\* the query parameters of the i-th request, in order
QueryOf(i) == IF net[i].url.query = <<>> THEN <<>> ELSE net[i].url.query[1]

\* C14: the request of getOverallStats and of getWidgetGraph carries one
\* attributeCodes[] parameter for each element of the attributeCodes array,
\* with the element as its value, in the order of the array.
C14_CodesSerialized ==
  (call.op \in {"getOverallStats", "getWidgetGraph"} /\ Invoked /\ net # <<>>) =>
    LET codes == Get(call.params, "attributeCodes")
        sent == SelectSeq(QueryOf(1), IsCodeParam)
    IN /\ codes.k = "array"
       /\ Len(sent) = Len(codes.v)
       /\ \A i \in 1..Len(sent) : sent[i] = <<"attributeCodes[]", codes.v[i].v>>

\* two codes went out in the order given
C14_Witness ==
  /\ call.op = "getOverallStats"
  /\ pc = "await"
  /\ Get(call.params, "attributeCodes") = Arr(<<S("Pb"), S("Pc")>>)
  /\ SelectSeq(QueryOf(1), IsCodeParam)
       = << <<"attributeCodes[]", <<"Pb">>>>, <<"attributeCodes[]", <<"Pc">>>> >>

(***************************************************************************)
(* C15                                                                     *)
(***************************************************************************)
\* the optional fields an operation has no default for
Undefaulted ==
  { "start", "end", "activeOnly", "page", "pageSize", "offset", "query", "limit",
    "filter", "sort", "version", "extended" }
  \cup (IF call.op = "getFirmwares" THEN {"type"} ELSE {})

\* the parameters the claim names as defaulted, with their defaults
ClaimedDefaults ==
  CASE call.op = "getStats" -> [interval |-> S("15mins")]
    [] call.op = "getDiagnostics" -> [count |-> Num(200)]
    [] call.op = "downloadInstallationData" -> [datatype |-> S("log"), format |-> S("csv")]
    [] OTHER -> <<>>

\* the values the last request carries under a parameter name, in order
Sent(name) ==
  LET Named(pair) == pair[1] = name
      pairs == SelectSeq(QueryOf(Len(net)), Named)
  IN [i \in 1..Len(pairs) |-> pairs[i][2]]

\* an undefaulted optional field goes out only when the call supplies it
OnlyWhenPresent ==
  \A name \in Undefaulted : Sent(name) # <<>> => Get(call.params, name) # Undefined

AskedType ==
  IF Get(call.params, "type") = Undefined THEN S("custom") ELSE Get(call.params, "type")

NamedPeriods == {S("today"), S("yesterday"), S("month"), S("year")}

Answered ==
  /\ pc = "done"
  /\ call.op # ""
  /\ result.kind = "returned"
  /\ result.isError = <<>>

\* C17: the envelope getOverallStats returns carries the timezone note exactly
\* when the response was ok and the type is today, yesterday, month or year;
\* for type custom, given or defaulted, it carries no note.
C17_TimezoneNote ==
  (Answered /\ call.op = "getOverallStats") =>
    /\ result.value.meta.note = <<TimezoneNote>>
         <=> (result.value.ok /\ AskedType \in NamedPeriods)
    /\ AskedType = S("custom") => result.value.meta.note = <<>>

\* an ok answer to a call for today carries the note
C17_Witness ==
  /\ Answered /\ call.op = "getOverallStats"
  /\ AskedType = S("today")
  /\ result.value.ok
  /\ result.value.meta.note = <<TimezoneNote>>

(***************************************************************************)
(* C18                                                                     *)
(***************************************************************************)
\* the payload is absent or has no keys of its own
Keyless(x) ==
  CASE x.k = "object" -> \A key \in Keys : x.v[key] = Undefined
    [] x.k \in {"array", "string"} -> Len(x.v) = 0
    [] OTHER -> TRUE

\* C18: the envelope getWidgetGraph returns carries the 'Widget returned empty
\* data' note exactly when the response was ok and its payload is absent or
\* has no keys.
C18_EmptyWidgetNote ==
  (Answered /\ call.op = "getWidgetGraph") =>
    /\ result.value.meta.note = <<EmptyWidgetNote>>
         <=> (result.value.ok /\ Keyless(result.value.data))
    /\ result.value.meta.note \in {<<>>, <<EmptyWidgetNote>>}

\* an ok answer with the empty object as payload carries the note
C18_Witness ==
  /\ Answered /\ call.op = "getWidgetGraph"
  /\ result.value.ok
  /\ result.value.data = EmptyObject
  /\ result.value.meta.note = <<EmptyWidgetNote>>

(***************************************************************************)
(* C19, C20                                                                *)
(***************************************************************************)
\* downloadInstallationData has returned an ok envelope for a call that
\* leaves format and decode at their defaults, csv and true
CsvDownloadAnswered ==
  /\ Answered /\ call.op = "downloadInstallationData"
  /\ result.value.ok
  /\ Get(call.params, "format") = Undefined
  /\ Get(call.params, "decode") = Undefined

\* what the endpoint answered the download with
Payload == BodyOf(got[1])

\* the non-blank lines of a text
NonBlankLines(text) ==
  LET NotBlank(line) == \E i \in 1..Len(line) : line[i] # 32
  IN SelectSeq(Split(text, 10), NotBlank)

\* C19 as stated: when the payload decodes to a header line followed by n
\* non-blank data lines, blank lines apart, the result has n records in line
\* order, the j-th pairing the i-th header name with the i-th value of the
\* j-th data line, summary.totalRecords is n, summary.columns are the trimmed
\* header names, and meta.note reports that the CSV was parsed.
C19_AsStated ==
  \A text \in CsvTexts :
    (/\ CsvDownloadAnswered
     /\ Payload = Str(base64Encode(text))
     /\ NonBlankLines(text) # <<>>) =>
      LET lines == NonBlankLines(text)
          header == Split(lines[1], 44)
          n == Len(lines) - 1
          data == result.value.data.v
          ValueAt(line, i) ==
            LET values == Split(line, 44)
            IN Coerce(IF i <= Len(values) THEN Text(Trim(values[i])) ELSE Undefined)
      IN /\ "records" \in DOMAIN data
         /\ Len(data.records) = n
         /\ \A j \in 1..n : \A i \in 1..Len(header) :
              data.records[j][Trim(header[i])] = ValueAt(lines[j + 1], i)
         /\ data.summary.totalRecords = n
         /\ data.summary.columns = [i \in 1..Len(header) |-> Text(Trim(header[i]))]
         /\ result.value.meta.note
              = <<"CSV data parsed into structured format for easier analysis">>

\* the payload is there and is no base64 text: not a string at all, or a
\* string with a character outside the base64 alphabet and its padding
NotBase64(x) ==
  /\ x.k \notin {"undefined", "null"}
  /\ x.k = "string" =>
       \E i \in 1..Len(x.v) : x.v[i] # "=" /\ \A j \in 1..64 : B64Alphabet[j] # x.v[i]

\* C20 as stated: a csv download with decode on whose 2xx response carries a
\* payload that is malformed or no valid base64 does not throw; it returns
\* ok = true with the original payload unchanged under data.content,
\* data.encoding = base64 and a meta.note saying that parsing failed.
C20_AsStated ==
  (/\ pc = "done" /\ call.op = "downloadInstallationData"
   /\ Get(call.params, "format") = Undefined
   /\ Get(call.params, "decode") = Undefined
   /\ ~Failed(got[1])
   /\ NotBase64(Payload)) =>
    /\ result.kind = "returned"
    /\ result.value.ok
    /\ result.value.data.k = "object"
    /\ "content" \in DOMAIN result.value.data.v
    /\ result.value.data.v.content = Payload
    /\ result.value.data.v.encoding = "base64"
    /\ result.value.meta.note = <<"Failed to parse CSV data, returning as base64">>

(***************************************************************************)
(* C21                                                                     *)
(***************************************************************************)
\* downloadInstallationData has returned an ok envelope for a call that asks
\* for another format than csv or turns decode off
RawDownloadAnswered ==
  /\ Answered /\ call.op = "downloadInstallationData"
  /\ result.value.ok
  /\ \/ Get(call.params, "format") \notin {Undefined, S("csv")}
     \/ Get(call.params, "decode") = Bool(FALSE)

\* the wrapper the claim describes, around a given content
IsWrapperOf(data, content) ==
  /\ data.k = "object"
  /\ DOMAIN data.v = {"format", "datatype", "timeRange", "content", "encoding", "filename"}
  /\ data.v.format
       = (IF Get(call.params, "format") = Undefined THEN S("csv") ELSE Get(call.params, "format"))
  /\ data.v.datatype
       = (IF Get(call.params, "datatype") = Undefined THEN S("log")
          ELSE Get(call.params, "datatype"))
  /\ data.v.timeRange = [start |-> Get(call.params, "start"), end |-> Get(call.params, "end")]
  /\ data.v.content = content
  /\ data.v.encoding = "base64"
  /\ LET prefix == <<"installation_">> \o ToStr(Get(call.params, "siteId")) \o <<"_">>
     IN SubSeq(data.v.filename, 1, Len(prefix)) = prefix
  /\ data.v.filename[Len(data.v.filename)] = data.v.format.v[1]

\* C21 as stated: a successful download whose format is not csv or whose
\* decode is false returns the original payload unparsed, wrapped as {format,
\* datatype, timeRange, content, encoding: base64, filename} with the
\* requested or defaulted format and datatype, and no records or summary.
C21_AsStated ==
  RawDownloadAnswered => IsWrapperOf(result.value.data, Payload)

\* C21, amended: the content is the data of vrmGet's envelope (the body, or
\* its truthy records field), and it is wrapped when it is truthy; a payload
\* that is null, 0 or the empty string is returned as it is, unwrapped.
C21_RawWrapped ==
  RawDownloadAnswered =>
    LET fetched == IF HasRecords(Payload) /\ Truthy(Payload.v["records"])
                     THEN Payload.v["records"] ELSE Payload
    IN /\ Truthy(fetched) => IsWrapperOf(result.value.data, fetched)
       /\ ~Truthy(fetched) => result.value.data = fetched
       /\ result.value.meta.note = <<>>

\* an xlsx download came back with its payload as content
C21_Witness ==
  /\ RawDownloadAnswered
  /\ Get(call.params, "format") = S("xlsx")
  /\ Payload = Str(<<"Y", "S", "x", "i">>)
  /\ IsWrapperOf(result.value.data, Payload)

(***************************************************************************)
(* C22                                                                     *)
(***************************************************************************)
\* C22: in an environment whose VRM_TOKEN is unset or empty the construction
\* fails, no operation is ever invoked and no request goes out; no request
\* ever goes out without a token; and with a token and neither VRM_BASE_URL
\* nor VRM_TOKEN_KIND set the client is constructed with the production base
\* URL and the kind Token.
C22_FailFast ==
  /\ \A env \in Environments :
       client = constructor(env) =>
         /\ env.VRM_TOKEN \in {<<>>, <<"">>} =>
              /\ ~client.constructed
              /\ pc = "crashed"
              /\ call = NoCall /\ net = <<>> /\ result = NoResult
         /\ (env.VRM_TOKEN \notin {<<>>, <<"">>}
               /\ env.VRM_BASE_URL = <<>> /\ env.VRM_TOKEN_KIND = <<>>) =>
              /\ client.constructed
              /\ pc # "crashed"
              /\ client.baseUrl = "https://vrmapi.victronenergy.com/v2"
              /\ client.tokenKind = "Token"
              /\ client.token = env.VRM_TOKEN[1]
  /\ \A i \in 1..Len(net) : net[i].headers["X-Authorization"][3] # ""

\* the construction failed for want of a token, although a token kind was set
C22_Witness ==
  /\ pc = "crashed"
  /\ ~client.constructed
  /\ client.token = ""
  /\ client.tokenKind = "Bearer"

(***************************************************************************)
(* C23                                                                     *)
(***************************************************************************)
\* C23 as stated: no tool the handler accepts answers a call its schema
\* accepts with tool_error; and vrm_get_user_access_tokens with an idUser
\* issues one GET of /users/<idUser>/accesstokens and returns the envelope of
\* its response.
C23_AsStated ==
  (call.entry = "tools" /\ pc = "done") =>
    /\ ResultCode # "tool_error"
    /\ (call.name = "vrm_get_user_access_tokens"
          /\ Get(call.params, "idUser").k = "number") =>
         /\ Len(net) = 1
         /\ net[1].method = "GET"
         /\ net[1].url.path
              = <<"/users/">> \o ToStr(Get(call.params, "idUser")) \o <<"/accesstokens">>
         /\ Answered

(***************************************************************************)
(* C24                                                                     *)
(***************************************************************************)
\* the invocation under way runs an operation on arguments its schema
\* accepts: a client method called with its declared type, or a call the
\* validating handler let through
SchemaValidCall == call.op # "" /\ call.entry \in {"client", "zod"}

\* C24 as stated: for arguments the operation's schema accepts, a numeric
\* siteId or idUser renders as a decimal id, and the invocation never ends
\* with 'Disallowed path'.
C24_AsStated ==
  (SchemaValidCall /\ Invoked) =>
    /\ \A key \in {"siteId", "idUser"} :
         Get(call.params, key).k = "number" =>
           \A i \in 1..Len(ToStr(Get(call.params, key))) :
             ToStr(Get(call.params, key))[i] \in DigitOnly
    /\ ~RaisedDisallowed

(***************************************************************************)
(* C25                                                                     *)
(***************************************************************************)
\* C25 as stated: listInstallations called with a numeric idUser never
\* requests /users/me, and ends having issued exactly one request, for
\* /users/<idUser>/installations.
C25_AsStated ==
  (SchemaValidCall /\ Invoked /\ call.op = "listInstallations"
     /\ Get(call.params, "idUser").k = "number") =>
    /\ \A i \in 1..Len(net) : net[i].url.path # <<"/users/me">>
    /\ pc = "done" =>
         /\ Len(net) = 1
         /\ net[1].url.path
              = <<"/users/">> \o ToStr(Get(call.params, "idUser")) \o <<"/installations">>

(***************************************************************************)
(* C26                                                                     *)
(***************************************************************************)
\* C26 as stated: an invocation other than the composite installation
\* listing never has more than one request on the wire, and when it has
\* ended it has issued exactly one request, to an allowlisted path, whatever
\* the answer was.
C26_AsStated ==
  (SchemaValidCall /\ Invoked /\ ~Composite) =>
    /\ Len(net) <= 1
    /\ pc = "done" => Len(net) = 1 /\ isAllowedPath(net[1].url.path)

(***************************************************************************)
(* C27                                                                     *)
(***************************************************************************)
\* the fetch of a single-call operation has settled and the invocation ended
SettledOnce == pc = "done" /\ call.op \in SingleCallOps /\ Len(got) = 1

\* C27: once the fetch of an allowlisted path has settled, whatever the
\* outcome (rejection, any status, a body that is not JSON), the operation
\* hands an envelope back and nothing is thrown (the one exception being a
\* second path that the allowlist refuses); and when the body of a
\* response did not parse, the envelope carries the status of the response,
\* the code that belongs to that status (none for a 2xx) and {} as data,
\* never network_error.
C27_NeverThrows ==
  /\ (pc = "done" /\ call.op # "" /\ got # <<>> /\ ~RaisedDisallowed) => Answered
  /\ (SettledOnce /\ ~got[1].rejected /\ got[1].json = <<>>) =>
       /\ result.value.meta.status = got[1].status
       /\ result.value.ok = ResponseOk(got[1].status)
       /\ result.value.data = EmptyObject
       /\ ResultCode = (IF ResponseOk(got[1].status) THEN "" ELSE errorCode(got[1].status))
       /\ ResultCode # "network_error"

C27_Witness ==
  /\ SettledOnce
  /\ isAllowedPath(net[1].url.path)
  /\ got[1] = Response(500, <<>>)
  /\ Answered
  /\ ResultCode = "unknown_error"
  /\ result.value.data = EmptyObject

(***************************************************************************)
(* C28                                                                     *)
(***************************************************************************)
\* the text is all decimal digits (the empty text among them)
AllDigits(cell) == \A i \in 1..Len(cell) : cell[i] \in 48..57

\* the text is the decimal numeral of a number: digits, no leading zero
Lossless(cell) == cell # <<>> /\ AllDigits(cell) /\ (Len(cell) = 1 \/ cell[1] # 48)

\* the text the payload of the download is the base64 of
Decoded == base64Decode(Payload.v)

\* the download was answered with the base64 of a text that has a header
\* line, and came back parsed
Parsed ==
  /\ CsvDownloadAnswered
  /\ Payload.k = "string"
  /\ "records" \in DOMAIN result.value.data.v
  /\ NonBlankLines(Decoded) # <<>>

\* every record has the trimmed header names as its keys and no others, and
\* under the name of the i-th header (the last of that name) the value
\* Want(values, i) of the values of its line
EveryCell(Want(_, _)) ==
  Parsed =>
    LET lines == NonBlankLines(Decoded)
        header == Split(lines[1], 44)
        records == result.value.data.v.records
    IN \A j \in 1..Len(records) :
         /\ DOMAIN records[j] = {Trim(header[i]) : i \in 1..Len(header)}
         /\ \A i \in 1..Len(header) :
              (\A l \in (i + 1)..Len(header) : Trim(header[l]) # Trim(header[i])) =>
                records[j][Trim(header[i])] = Want(Split(lines[j + 1], 44), i)

\* C28 as stated: every cell, an empty cell and a cell missing from a short
\* row included, becomes a number exactly when its text parses losslessly as
\* one and otherwise stays as its trimmed text; the keys of a record are the
\* header names only, so the surplus values of a long row are dropped.
C28_AsStated ==
  LET Want(values, i) ==
        LET cell == IF i <= Len(values) THEN Trim(values[i]) ELSE <<>>
        IN IF Lossless(cell) THEN Num(DigitsValue(cell)) ELSE Text(cell)
  IN EveryCell(Want)

\* C28, amended: every cell that is there becomes the number Number() makes
\* of its trimmed text whenever that is not NaN, so an empty cell becomes 0
\* and 03 becomes 3, and otherwise stays as its trimmed text; a cell missing
\* from a short row is left undefined; the keys of a record are the header
\* names only, so the surplus values of a long row are dropped.
C28_LooseCoercion ==
  LET Want(values, i) ==
        IF i > Len(values) THEN Undefined
        ELSE IF AllDigits(Trim(values[i])) THEN Num(DigitsValue(Trim(values[i])))
        ELSE Text(Trim(values[i]))
  IN EveryCell(Want)

\* header a,b over the long row 03,, b and the row a, a
C28_Witness ==
  /\ Parsed
  /\ Decoded = JoinLines(<< <<97, 44, 98>>, <<48, 51, 44, 44, 32, 98>>, <<97, 44, 32, 97>> >>)
  /\ result.value.data.v.records
       = << (<<97>> :> Num(3)) @@ (<<98>> :> Num(0)),
            (<<97>> :> Text(<<97>>)) @@ (<<98>> :> Text(<<97>>)) >>

(***************************************************************************)
(* C29                                                                     *)
(***************************************************************************)
NotedOps == {"getOverallStats", "getWidgetGraph"}

\* C29: in the step in which getOverallStats or getWidgetGraph returns, the
\* envelope it returns is, meta.note apart, the envelope vrmGet made of the
\* path, the request id and the response: ok, data, endpoint, requestId,
\* error, meta.status and meta.rateLimited are untouched; and an envelope
\* that is not ok goes out without a note.
C29_OnlyNote ==
  [][ (/\ pc = "await"
       /\ call.op \in NotedOps
       /\ pc' = "done"
       /\ result'.kind = "returned"
       /\ result'.isError = <<>>) =>
        /\ [result'.value EXCEPT !.meta.note = <<>>]
             = vrmGetSettle(frame.path, frame.requestId, got'[Len(got')])
        /\ ~result'.value.ok => result'.value.meta.note = <<>> ]_vars

C29_Witness ==
  /\ Answered /\ call.op \in NotedOps
  /\ result.value.meta.note # <<>>
  /\ result.value.ok
  /\ result.value.data = Unwrap(BodyOf(got[1]))
  /\ result.value.endpoint = net[1].url.path
  /\ result.value.meta.status = got[1].status

(***************************************************************************)
(* C30                                                                     *)
(***************************************************************************)
\* the step a call stands at when it runs with nothing else under way and
\* has been given the answers, each the outcome of a fetch and the request
\* id of its vrmGet, in turn
Alone(c, answers) ==
  LET d == Dispatch(c.entry, c.name, c.args)
      Settled(step, answer) ==
        Resume(d.op, step.stage, d.params,
               vrmGetSettle(step.path, answer.requestId, answer.outcome))
      first == IF d.thrown THEN d.step ELSE Begin(d.op, d.params)
      second == IF first.kind = "await" /\ Len(answers) >= 1
                  THEN Settled(first, answers[1]) ELSE first
  IN IF second.kind = "await" /\ Len(answers) >= 2
       THEN Settled(second, answers[2]) ELSE second

\* the requests of invocation i, in the order they went out
RequestsOf(log, i) ==
  LET Own(entry) == entry.by = i
      own == SelectSeq(log, Own)
  IN [n \in 1..Len(own) |-> own[n].request]

\* invocation i is where its own call and its own answers put it: with the
\* result they determine when it has ended, and awaiting the fetch they
\* determine, as the last of its requests, when it has not
OnItsOwn(i) ==
  LET step == Alone(call[i], got[i])
      sent == RequestsOf(net, i)
  IN /\ pc[i] = "done" => step.kind # "await" /\ result[i] = Finish("index", step)
     /\ pc[i] = "await" =>
          /\ step.kind = "await"
          /\ frame[i].path = step.path /\ frame[i].stage = step.stage
          /\ Len(sent) = Len(got[i]) + 1
          /\ sent[Len(sent)] = FetchCall(client, step.path, step.query)

\* C30: with invocations under way at once and their fetches settling in any
\* order, at all times each invocation stands where its own arguments
\* and its own responses alone put it, with the envelope they determine once
\* it has ended; a step changes the call, the locals, the responses, the
\* result and the requests of one invocation only; and the configuration
\* (token, base URL, token kind) of the client stays as constructed.
C30_Independent ==
  /\ [](\A i \in Invocations : OnItsOwn(i))
  /\ [][ /\ \E i \in Invocations : \A j \in Invocations \ {i} :
               /\ pc'[j] = pc[j] /\ call'[j] = call[j] /\ frame'[j] = frame[j]
               /\ got'[j] = got[j] /\ result'[j] = result[j]
               /\ RequestsOf(net', j) = RequestsOf(net, j)
          /\ client' = client ]_vars

\* both invocations have ended, the first to ask being the last to be answered
C30_Witness ==
  /\ pc = [i \in Invocations |-> "done"]
  /\ Len(net) = 2
  /\ net[1].by = "a" /\ net[2].by = "b"
  /\ call["a"].name = "vrm_get_system_overview"
  /\ call["b"].name = "vrm_get_widget_graph"
  /\ got["a"][1].outcome.status = 429
  /\ got["b"][1].outcome.status = 200
  /\ result["a"].value.endpoint = net[1].request.url.path
  /\ result["a"].value.error[1].code = "rate_limited"
  /\ result["b"].value.endpoint = net[2].request.url.path
  /\ result["b"].value.ok

====
